---- MODULE Spec2Model ----
(***************************************************************************)
(* The worker process of the folio test runner (src/src/worker.ts and      *)
(* src/src/workerRunner.ts) as a state machine.  The worker is a single    *)
(* JavaScript thread: an action is what runs between two suspension points *)
(* of the event loop (a user callable settles, a deadline timer fires, a   *)
(* message or an unhandled error arrives) together with every synchronous  *)
(* continuation it triggers.  The dispatcher of the parent process, whose  *)
(* source is not part of src/, follows section 4.2 of spec.md and has a    *)
(* specification of its own, DispatcherSpec.                               *)
(***************************************************************************)
EXTENDS Integers, Sequences, FiniteSets, TLC

(***************************************************************************)
(* Bounds.                                                                 *)
(***************************************************************************)
MaxRuns == 2

(***************************************************************************)
(* The loaded test file: a file suite F with a spec t1, a suite K that     *)
(* carries a skip annotation (spec t3) and a suite S that carries a fail   *)
(* annotation (spec t2).                                                   *)
(***************************************************************************)
Suites == {"F", "K", "S"}

Tests == {"t1", "t2", "t3"}

Timeouts == {0, 1}

\* The buckets the parent assigns: the whole file, a single spec, and a
\* bucket whose only spec is skipped by its suite.
Buckets == {{"t1", "t2", "t3"}, {"t1"}, {"t3"}}

SuiteParent(s) == IF s = "F" THEN "none" ELSE "F"

SpecParent(t) == CASE t = "t1" -> "F" [] t = "t2" -> "S" [] OTHER -> "K"

SuiteEntries(s) ==
  CASE s = "F" -> <<"t1", "K", "S">>
    [] s = "S" -> <<"t2">>
    [] OTHER   -> <<"t3">>

Hook(type, fn) == [type |-> type, fn |-> fn]

SuiteHooks(s) ==
  CASE s = "F" -> << Hook("beforeAll", "F.beforeAll"), Hook("beforeEach", "F.beforeEach"),
                     Hook("afterEach", "F.afterEach"), Hook("afterAll", "F.afterAll") >>
    [] s = "S" -> << Hook("beforeAll", "S.beforeAll"), Hook("beforeEach", "S.beforeEach"),
                     Hook("afterEach", "S.afterEach1"), Hook("afterEach", "S.afterEach2"),
                     Hook("afterAll", "S.afterAll") >>
    [] OTHER   -> << Hook("beforeAll", "K.beforeAll"), Hook("afterAll", "K.afterAll") >>

SuiteAnnotations(s) == IF s = "K" THEN {"skip"} ELSE IF s = "S" THEN {"fail"} ELSE {}

(***************************************************************************)
(* Sequence helpers.                                                       *)
(***************************************************************************)
Reverse(q) == [i \in 1..Len(q) |-> q[Len(q) + 1 - i]]

HookFns(s, type) ==
  LET hs == SelectSeq(SuiteHooks(s), LAMBDA h : h.type = type)
  IN  [i \in 1..Len(hs) |-> hs[i].fn]

RECURSIVE Ancestors(_)
Ancestors(s) == IF s = "none" THEN <<>> ELSE <<s>> \o Ancestors(SuiteParent(s))

RECURSIVE HooksUp(_, _)
HooksUp(s, type) ==
  IF s = "none" THEN <<>>
  ELSE Reverse(HookFns(s, type)) \o HooksUp(SuiteParent(s), type)

\* Mutant of RunHooksList: the list is not reversed for beforeEach.
RunHooksListInnermostFirst(suite, type) == HooksUp(suite, type)

\* The hook list _runHooks builds for a spec whose parent suite is `suite`.
RunHooksList(suite, type) ==
  IF type = "beforeEach" THEN Reverse(HooksUp(suite, type)) ELSE HooksUp(suite, type)

\* The annotations _runSpec collects from the ancestors of spec t.
InheritedAnnotations(t) ==
  UNION {SuiteAnnotations(Ancestors(SpecParent(t))[i]) : i \in 1..Len(Ancestors(SpecParent(t)))}

ExpectedStatus(t) ==
  IF InheritedAnnotations(t) \cap {"skip", "fixme"} # {} THEN "skipped"
  ELSE IF "fail" \in InheritedAnnotations(t) THEN "failed"
  ELSE "passed"

RECURSIVE SpecsUnder(_)
SpecsUnder(s) ==
  UNION {IF SuiteEntries(s)[i] \in Suites THEN SpecsUnder(SuiteEntries(s)[i]) ELSE {SuiteEntries(s)[i]}
           : i \in 1..Len(SuiteEntries(s))}

\* Mutant of HasTestsToRun: an entry skipped by an annotation counts as a test to run.
HasTestsToRunSkippedToo(s, E) == \E t \in SpecsUnder(s) : t \in E

\* WorkerRunner._hasTestsToRun.
HasTestsToRun(s, E) ==
  \E t \in SpecsUnder(s) :
    /\ t \in E
    /\ InheritedAnnotations(t) \cap {"skip", "fixme"} = {}

(***************************************************************************)
(* The depth-first walk of _runSuite for the bucket E, flattened into the  *)
(* sequence of its steps: the beforeAll/afterAll hooks that are not        *)
(* skipped and the specs, in the order the walk reaches them.              *)
(***************************************************************************)
Step(kind, suite, fn, test) == [kind |-> kind, suite |-> suite, fn |-> fn, test |-> test]

AllHookSteps(s, type, E) ==
  IF ~HasTestsToRun(s, E) THEN <<>>
  ELSE [i \in 1..Len(HookFns(s, type)) |-> Step(type, s, HookFns(s, type)[i], "none")]

RECURSIVE SuiteSteps(_, _), EntrySteps(_, _, _)
SuiteSteps(s, E) ==
  AllHookSteps(s, "beforeAll", E) \o EntrySteps(s, 1, E) \o AllHookSteps(s, "afterAll", E)

EntrySteps(s, i, E) ==
  IF i > Len(SuiteEntries(s)) THEN <<>>
  ELSE (IF SuiteEntries(s)[i] \in Suites
          THEN SuiteSteps(SuiteEntries(s)[i], E)
          ELSE <<Step("spec", s, "none", SuiteEntries(s)[i])>>)
       \o EntrySteps(s, i + 1, E)

Program(E) == SuiteSteps("F", E)

(***************************************************************************)
(* State.                                                                  *)
(***************************************************************************)
VARIABLES
  testRunner,      \* worker.ts: "null" or "runner"
  closed,          \* worker.ts: gracefullyCloseAndExit has started
  exited,          \* process.exit has been called
  parent,          \* the parent's view of this worker: "idle", "assigned", "retired"
  runsSent,        \* run messages sent so far
  timeout,         \* WorkerRunner._timeout
  isStopped,       \* WorkerRunner._isStopped
  failedTestId,    \* WorkerRunner._failedTestId
  fatalError,      \* WorkerRunner._fatalError
  entries,         \* WorkerRunner._entries (test ids)
  remaining,       \* WorkerRunner._remaining (test ids)
  program,         \* the steps of the walk of the file suite for the entries
  testId,          \* WorkerRunner._testId
  testInfo,        \* WorkerRunner._testInfo: "null" or the test whose TestInfo it refers to
  envInitialized,  \* WorkerRunner._envInitialized
  info,            \* the TestInfo objects created in this run, by test id
  pc,              \* where run() is suspended
  chainB,          \* the _runTestWithBeforeHooks call of the current attempt
  chainA,          \* the _runAfterHooks call of the current attempt
  expired,         \* deadlines of the current attempt that have elapsed
  log,             \* messages sent to the parent, and calls of user callables
  queue,           \* dispatcher: the pending buckets, first to be assigned first
  slot,            \* dispatcher: the worker slots and what it knows of their runs
  results,         \* dispatcher: the TestResults of each test, one per attempt
  cfg,             \* runner: the configuration and whether the loaded suites hold an only marker
  rpc,             \* runner: where _run is suspended
  returned,        \* runner: the value of the return statement _run has executed
  cli,             \* cli.ts: "running" (awaits runner.run), "drain", "exited"
  result,          \* cli.ts: what runner.run returned
  exitCode,        \* the code given to process.exit
  didBegin,        \* Runner._didBegin
  sigint,          \* the flag of the SIGINT handler of _run
  sigintHandler,   \* the SIGINT handler of _run is installed
  sigintAt,        \* for the record: where _run was when SIGINT was handled
  hasWorkerErrors, \* the value _run read from dispatcher.hasWorkerErrors()
  outputDeleted,   \* removeFolderAsync has been called on the output directories
  dispatcherCreated, \* new Dispatcher(...) has been called
  globalHooks,     \* for the record: the global setups that have completed and what the finally
                   \* block of _run did, each with the number of reporter callbacks before it
  reporter,        \* the reporter callbacks called, in order; a run of consecutive
                   \* onTestBegin/onTestEnd calls is written once, as "onTestEvent"
  attempts,        \* output paths: two attempts (file, title, suite path segment, retry, repeat index)
  outputDirs,      \* output paths: the output directory computed for each of them, or "none"
  command,         \* sharding: the value of --shard and the number of tests of the run
  shard,           \* sharding: config.shard in a one-element sequence, empty when not given
  selected,        \* sharding: the indices (zero-based) of the tests of the selected shard, in a one-element sequence, empty before the selection
  rootSuite,       \* only-filtering: the suites of the tree, each with its suites, specs and _entries
  onlyMarks,       \* only-filtering: the suites and specs whose _only is set
  filterCalls,     \* only-filtering: how many times filterOnly(rootSuite) has been called
  envPc,           \* merged environment: the callback of the environment awaited (at, i) and the first error an after-loop has caught (error, 0 when none)
  envCalls,        \* merged environment: the calls and settlements of the callbacks of the environments, in order
  envArgs          \* merged environment: `result` of the merged beforeEach, in a one-element sequence, empty when undefined

wvars == << testRunner, closed, exited, parent, runsSent, timeout, isStopped, failedTestId,
            fatalError, entries, remaining, program, testId, testInfo, envInitialized, info, pc,
            chainB, chainA, expired, log >>

dvars == << queue, slot, results >>

\* The runner and the command line, but for the reporter.
rvars0 == << cfg, rpc, returned, cli, result, exitCode, didBegin, sigint, sigintHandler, sigintAt,
             hasWorkerErrors, outputDeleted, dispatcherCreated, globalHooks >>

rvars == << rvars0, reporter >>

\* The two attempts whose output directories are computed.
pvars == << attempts, outputDirs >>

\* The command line and the shard it selects.
svars == << command, shard, selected >>

\* The suite tree that filterOnly works on.
tvars == << rootSuite, onlyMarks, filterCalls >>

\* The environments that are merged and the progress of their callbacks.
evars == << envPc, envCalls, envArgs >>

lvars == << tvars, evars >>

vars == << wvars, dvars, rvars, pvars, svars, lvars >>

Ev(e, id, fn, status, error, rem) ==
  [e |-> e, id |-> id, fn |-> fn, status |-> status, error |-> error, rem |-> rem]

Call(fn, t) == Ev("call", t, fn, "none", "none", {})

NoInfo == [status |-> "none", error |-> "none", expectedStatus |-> "none"]

\* A _runTestWithBeforeHooks or _runAfterHooks call: what it awaits (state, and
\* the index i of the hook), the first error its hooks threw (err), and, for
\* the record, the beforeEach hooks that threw an error other than a SkipError.
Chain(state, i, err, threw) == [state |-> state, i |-> i, err |-> err, threw |-> threw]

IdleChain == Chain("idle", 0, "none", {})

Pc(at, k, deadline) == [at |-> at, k |-> k, deadline |-> deadline]

\* The state the operators below transform: the runner, its tasks and the log.
Cur ==
  [ testRunner |-> testRunner, timeout |-> timeout, isStopped |-> isStopped,
    failedTestId |-> failedTestId, fatalError |-> fatalError, entries |-> entries,
    remaining |-> remaining, program |-> program, testId |-> testId, testInfo |-> testInfo,
    envInitialized |-> envInitialized, info |-> info, pc |-> pc, chainB |-> chainB,
    chainA |-> chainA, expired |-> expired, log |-> log ]

Emit(st, ev) == [st EXCEPT !.log = Append(@, ev)]

\* WorkerRunner._deadline: no deadline when the timeout is 0.
Deadline(st, id) == IF st.timeout # 0 THEN id ELSE "none"

(***************************************************************************)
(* WorkerRunner: stop, done reporting, unhandled errors.                   *)
(***************************************************************************)
StopRunner(st) == [st EXCEPT !.isStopped = TRUE, !.testId = "null", !.testInfo = "null"]

ReportDone(st) ==
  Emit(st, Ev("done", st.failedTestId, "none", "none", st.fatalError, st.remaining))

\* Mutant of ReportDoneAndStop: done is reported even when already stopped.
ReportDoneAndStopAgain(st) == StopRunner(ReportDone(st))

ReportDoneAndStop(st) == IF st.isStopped THEN st ELSE StopRunner(ReportDone(st))

TestEndOf(st, id, obj) == Ev("testEnd", id, "none", st.info[obj].status, st.info[obj].error, {})

\* Mutant of UnhandledErrorInTest: the test is marked failed but no testEnd is sent.
UnhandledErrorInTestNoEnd(st) ==
  [st EXCEPT !.info[st.testInfo].status = "failed",
             !.info[st.testInfo].error = "unhandled",
             !.failedTestId = st.testId]

UnhandledErrorInTest(st) ==
  LET st1 == [st EXCEPT !.info[st.testInfo].status = "failed",
                        !.info[st.testInfo].error = "unhandled",
                        !.failedTestId = st.testId]
  IN  Emit(st1, TestEndOf(st1, st1.testId, st1.testInfo))

\* Mutant of UnhandledErr: every unhandled error is the worker's fatal error.
UnhandledErrAlwaysFatal(st) ==
  IF st.isStopped THEN st
  ELSE ReportDoneAndStop([st EXCEPT !.fatalError = "unhandled"])

UnhandledErr(st) ==
  IF st.isStopped THEN st
  ELSE IF st.testInfo # "null" THEN ReportDoneAndStop(UnhandledErrorInTest(st))
  ELSE ReportDoneAndStop([st EXCEPT !.fatalError = "unhandled"])

\* worker.ts: run() has resolved, the message handler drops its runner.
RunReturned(st) == [st EXCEPT !.pc = Pc("idle", 0, "none"), !.testRunner = "null"]

\* worker.ts: run() has rejected; the handler's rejection is unhandled and is
\* routed to unhandledError of the runner, which is still set.
RunRejected(st) == [UnhandledErr(st) EXCEPT !.pc = Pc("idle", 0, "none")]

(***************************************************************************)
(* WorkerRunner._runSuite and _runSpec up to the first suspension.         *)
(***************************************************************************)
NewTestInfo(t) == [status |-> "passed", error |-> "none", expectedStatus |-> ExpectedStatus(t)]

\* Mutant of SpecStopped: _runSpec without its check of _isStopped.
SpecNeverStopped(st) == FALSE

\* _runSpec: the spec is not run once the runner is stopped.
SpecStopped(st) == st.isStopped

\* _runSpec for a spec whose expected status is skipped.
SkippedSpec(st, t) ==
  LET st1 == [st EXCEPT !.info[t].status = "skipped"]
  IN  Emit(st1, TestEndOf(st1, t, t))

\* Mutant of RemainingDelete: the entry stays in _remaining.
RemainingKept(rem, t) == rem

\* _runSpec: this._remaining.delete(test._id).
RemainingDelete(rem, t) == rem \ {t}

RECURSIVE RunFrom(_, _), RunSpec(_, _), SpecReturns(_, _)
RunFrom(st, k) ==
  IF k > Len(st.program)
    THEN (IF st.isStopped THEN RunReturned(st) ELSE RunReturned(ReportDone(st)))
  ELSE IF st.program[k].kind # "spec"
    THEN (IF st.isStopped THEN RunReturned(st)
          ELSE [Emit(st, Call(st.program[k].fn, "none"))
                  EXCEPT !.pc = Pc("hook", k, Deadline(st, "own"))])
  ELSE RunSpec(st, k)

RunSpec(st, k) ==
  LET t   == st.program[k].test
      st1 == [st EXCEPT !.remaining = RemainingDelete(@, t), !.testId = t, !.testInfo = t,
                        !.info[t] = NewTestInfo(t), !.expired = {},
                        !.chainA = IdleChain, !.chainB = IdleChain]
      st2 == Emit(st1, Ev("testBegin", t, "none", "none", "none", {}))
  IN  IF SpecStopped(st) \/ t \notin st.entries THEN RunFrom(st, k + 1)
      ELSE IF st2.info[t].expectedStatus = "skipped" THEN RunFrom(SkippedSpec(st2, t), k + 1)
      ELSE [Emit(st2, Call("env.beforeEach", t))
              EXCEPT !.pc = Pc("envBeforeEach", k, Deadline(st, "test"))]

\* _runSpec returns.  The calls of the attempt that are still pending touch
\* only its TestInfo, which nothing reads any more: they are not followed.
Abandon(c) == IF c.state \in {"idle", "done"} THEN c ELSE Chain("abandoned", 0, c.err, c.threw)

SpecReturns(st, k) ==
  RunFrom([st EXCEPT !.chainA = Abandon(@), !.chainB = Abandon(@)], k + 1)

\* _runSpec after the teardown: testEnd, failedTestId, done.
FinishSpec(st, k) ==
  LET t   == st.program[k].test
      st1 == Emit(st, TestEndOf(st, t, t))
      st2 == IF st1.info[t].status # "passed"
               THEN ReportDoneAndStop([st1 EXCEPT !.failedTestId = st1.testId])
               ELSE st1
      st3 == [st2 EXCEPT !.testInfo = "null", !.testId = "null"]
  IN  IF st.isStopped THEN SpecReturns(st, k) ELSE SpecReturns(st3, k)

(***************************************************************************)
(* _runHooks, _runTestWithBeforeHooks and _runAfterHooks.  A chain record  *)
(* is the position of one call: the hook (or body, or env.afterEach) it    *)
(* awaits and the first error its hooks threw.                             *)
(***************************************************************************)
FirstError(err, outcome, fn) ==
  IF err # "none" THEN err
  ELSE IF outcome = "ok" THEN "none"
  ELSE IF outcome = "skip" THEN "skip"
  ELSE fn

Fail(st, t, err) == [st EXCEPT !.info[t].status = "failed", !.info[t].error = err]

\* Mutant of RunsNextHook: the loop of _runHooks ends at the first error.
RunsNextHookUntilError(i, n, err) == i < n /\ err = "none"

\* _runHooks, after a hook has settled: is the next hook of the list run?
RunsNextHook(i, n, err) == i < n

AfterHooksRan(st, t, err) ==
  LET st1 == IF err \notin {"none", "skip"} /\ st.info[t].status = "passed"
               THEN Fail(st, t, err) ELSE st
  IN  [Emit(st1, Call("env.afterEach", t))
         EXCEPT !.chainA = Chain("env", 0, "none", {})]

RunAfterHooks(st, t) ==
  LET hs == RunHooksList(SpecParent(t), "afterEach")
  IN  IF st.isStopped \/ Len(hs) = 0 THEN AfterHooksRan(st, t, "none")
      ELSE [Emit(st, Call(hs[1], t))
              EXCEPT !.chainA = Chain("hooks", 1, "none", {})]

AfterSettled(st, t, outcome) ==
  LET c   == st.chainA
      hs  == RunHooksList(SpecParent(t), "afterEach")
  IN  IF c.state = "hooks"
        THEN (IF RunsNextHook(c.i, Len(hs), FirstError(c.err, outcome, hs[c.i]))
                THEN [Emit(st, Call(hs[c.i + 1], t))
                        EXCEPT !.chainA = Chain("hooks", c.i + 1,
                                                FirstError(c.err, outcome, hs[c.i]), {})]
                ELSE AfterHooksRan(st, t, FirstError(c.err, outcome, hs[c.i])))
        ELSE [(IF outcome # "ok" /\ st.info[t].status = "passed"
                 THEN Fail(st, t, "env.afterEach") ELSE st)
                EXCEPT !.chainA = Chain("done", 0, "none", {})]

\* Mutant of BodyPrevented: the body is skipped only when the runner is stopped.
BodyPreventedOnlyByStop(st, t) == st.isStopped

\* _runTestWithBeforeHooks: is the body skipped after the beforeEach hooks?
BodyPrevented(st, t) == st.isStopped \/ st.info[t].status \in {"failed", "skipped"}

BeforeHooksRan(st, t, err, threw) ==
  LET st1 == IF err = "none" THEN st
             ELSE IF err = "skip" THEN [st EXCEPT !.info[t].status = "skipped"]
             ELSE Fail(st, t, err)
  IN  IF BodyPrevented(st1, t)
        THEN [st1 EXCEPT !.chainB = Chain("done", 0, err, threw)]
        ELSE [Emit(st1, Call("body", t)) EXCEPT !.chainB = Chain("body", 0, err, threw)]

RunTestWithBeforeHooks(st, t) ==
  LET hs == RunHooksList(SpecParent(t), "beforeEach")
  IN  IF st.isStopped \/ Len(hs) = 0 THEN BeforeHooksRan(st, t, "none", {})
      ELSE [Emit(st, Call(hs[1], t)) EXCEPT !.chainB = Chain("hooks", 1, "none", {})]

\* The status the settled body leaves in the TestInfo.
BodyStatus(outcome) ==
  IF outcome = "ok" THEN "passed" ELSE IF outcome = "skip" THEN "skipped" ELSE "failed"

BeforeSettled(st, t, outcome) ==
  LET c     == st.chainB
      hs    == RunHooksList(SpecParent(t), "beforeEach")
      err   == FirstError(c.err, outcome, hs[c.i])
      threw == IF outcome = "throw" THEN c.threw \cup {hs[c.i]} ELSE c.threw
  IN  IF c.state = "hooks"
        THEN (IF RunsNextHook(c.i, Len(hs), err)
                THEN [Emit(st, Call(hs[c.i + 1], t))
                        EXCEPT !.chainB = Chain("hooks", c.i + 1, err, threw)]
                ELSE BeforeHooksRan(st, t, err, threw))
        ELSE [st EXCEPT !.info[t].status = BodyStatus(outcome),
                        !.info[t].error = IF outcome = "throw" THEN "body" ELSE @,
                        !.chainB = Chain("done", 0, c.err, c.threw)]

(***************************************************************************)
(* _runSpec after each of its deadline races.                              *)
(***************************************************************************)
TimedOut(st, t, timedOut) ==
  IF timedOut /\ st.info[t].status = "passed" THEN [st EXCEPT !.info[t].status = "timedOut"] ELSE st

\* Mutant of TeardownDeadline: the teardown is raced against the deadline of the test.
TeardownDeadlineOfTest == "test"

\* The deadline the teardown of a timed-out test is raced against.
TeardownDeadline == "fresh"

\* raceAgainstDeadline(_runAfterHooks(...), newDeadline) for a timed-out test.
TeardownRace(st, k, d) ==
  LET t   == st.program[k].test
      st1 == RunAfterHooks([st EXCEPT !.expired = @ \ {"fresh"}], t)
  IN  IF d \in st1.expired THEN FinishSpec(st1, k)
      ELSE [st1 EXCEPT !.pc = Pc("afterFresh", k, d)]

AfterTestRace(st, k, timedOut) ==
  LET t   == st.program[k].test
      st1 == TimedOut(st, t, timedOut)
  IN  IF st1.isStopped THEN SpecReturns(st1, k)
      ELSE IF ~timedOut
        THEN [RunAfterHooks(st1, t) EXCEPT !.pc = Pc("after", k, Deadline(st1, "test"))]
      ELSE TeardownRace(st1, k, TeardownDeadline)

\* Mutant of AfterHooksRace: after hooks that lose their race are run again
\* against a fresh deadline.
AfterHooksRaceThenFresh(st, k, timedOut) ==
  IF timedOut /\ ~st.isStopped
    THEN TeardownRace(TimedOut(st, st.program[k].test, timedOut), k, TeardownDeadline)
    ELSE FinishSpec(TimedOut(st, st.program[k].test, timedOut), k)

\* _runSpec after the race of _runAfterHooks against the deadline of the test.
AfterHooksRace(st, k, timedOut) ==
  FinishSpec(TimedOut(st, st.program[k].test, timedOut), k)

\* Mutant of AfterEnvBeforeEach: the after hooks are run when env.beforeEach threw.
AfterEnvBeforeEachThenTeardown(st, k, outcome) ==
  LET t   == st.program[k].test
      st1 == IF outcome = "throw" THEN Fail(st, t, "env.beforeEach")
             ELSE TimedOut(st, t, outcome = "timedOut")
  IN  IF st1.isStopped THEN SpecReturns(st1, k)
      ELSE IF outcome = "ok"
        THEN [RunTestWithBeforeHooks(st1, t) EXCEPT !.pc = Pc("test", k, Deadline(st1, "test"))]
      ELSE IF outcome = "throw"
        THEN [RunAfterHooks(st1, t) EXCEPT !.pc = Pc("after", k, Deadline(st1, "test"))]
      ELSE FinishSpec(st1, k)

\* outcome: "ok", "throw" (caught by _runEnvBeforeEach) or "timedOut".
AfterEnvBeforeEach(st, k, outcome) ==
  LET t   == st.program[k].test
      st1 == IF outcome = "throw" THEN Fail(st, t, "env.beforeEach")
             ELSE TimedOut(st, t, outcome = "timedOut")
  IN  IF st1.isStopped THEN SpecReturns(st1, k)
      ELSE IF outcome = "ok"
        THEN [RunTestWithBeforeHooks(st1, t) EXCEPT !.pc = Pc("test", k, Deadline(st1, "test"))]
      ELSE FinishSpec(st1, k)

(***************************************************************************)
(* Actions.                                                                *)
(***************************************************************************)
\* The worker process before its first run message.
WorkerReady ==
  /\ testRunner = "null"
  /\ closed = FALSE
  /\ exited = FALSE
  /\ parent = "idle"
  /\ runsSent = 0
  /\ isStopped = FALSE
  /\ failedTestId = "none"
  /\ fatalError = "none"
  /\ entries = {}
  /\ remaining = {}
  /\ program = <<>>
  /\ testId = "null"
  /\ testInfo = "null"
  /\ envInitialized = FALSE
  /\ info = [t \in Tests |-> NoInfo]
  /\ pc = Pc("idle", 0, "none")
  /\ chainB = IdleChain
  /\ chainA = IdleChain
  /\ expired = {}
  /\ log = <<>>

\* A dispatcher that has nothing to run.
DispatcherIdle ==
  /\ queue = <<>>
  /\ slot = <<>>
  /\ results = [t \in Tests |-> <<>>]

Config(globalTimeout, globalSetup, forbidOnly, hasOnly) ==
  [globalTimeout |-> globalTimeout, globalSetup |-> globalSetup, forbidOnly |-> forbidOnly,
   hasOnly |-> hasOnly]

\* The command line has constructed the Runner and has not called run.
RunnerIdle ==
  /\ rpc = "idle"
  /\ returned = "none"
  /\ cli = "running"
  /\ result = "none"
  /\ exitCode = "none"
  /\ didBegin = FALSE
  /\ sigint = FALSE
  /\ sigintHandler = FALSE
  /\ sigintAt = "none"
  /\ hasWorkerErrors = FALSE
  /\ outputDeleted = FALSE
  /\ dispatcherCreated = FALSE
  /\ globalHooks = <<>>
  /\ reporter = <<>>

\* The suites and specs of the tree that is filtered: the root suite with a
\* suite A (two specs around a nested suite C), a spec x, and a suite B.
TreeSuites == {"root", "A", "B", "C"}

TreeSpecs == {"x", "a1", "a2", "c1", "b1"}

\* Suite._entries as the files declare them.
TreeEntries(s) ==
  CASE s = "root" -> <<"A", "x", "B">>
    [] s = "A"    -> <<"a1", "C", "a2">>
    [] s = "B"    -> <<"b1">>
    [] OTHER      -> <<"c1">>

\* A Suite object: its suites, specs and _entries.
SuiteOf(es) ==
  [suites  |-> SelectSeq(es, LAMBDA n : n \in TreeSuites),
   specs   |-> SelectSeq(es, LAMBDA n : n \in TreeSpecs),
   entries |-> es]

\* The tree as loaded, before filterOnly.
LoadedTree == [s \in TreeSuites |-> SuiteOf(TreeEntries(s))]

\* No tree is being filtered.
NoTree ==
  /\ rootSuite = LoadedTree
  /\ onlyMarks = {}
  /\ filterCalls = 0

\* No callback of an environment is called.
NoEnvs ==
  /\ envPc = [at |-> "idle", i |-> 0, error |-> 0]
  /\ envCalls = <<>>
  /\ envArgs = <<>>

\* No output directory and no shard is asked for.
NoPaths ==
  /\ attempts = <<>>
  /\ outputDirs = <<>>

NoShard ==
  /\ command = "none"
  /\ shard = <<>>
  /\ selected = <<>>

Init ==
  /\ WorkerReady
  /\ timeout \in Timeouts
  /\ DispatcherIdle
  /\ RunnerIdle
  /\ cfg = Config(0, FALSE, FALSE, FALSE)
  /\ NoPaths
  /\ NoShard
  /\ NoTree
  /\ NoEnvs

\* The parent's view of the worker after the messages of this step: a done
\* without failedTestId and fatalError leaves the worker reusable, any other
\* done retires it.
ParentAfter(st) ==
  LET new == {i \in (Len(log) + 1)..Len(st.log) : st.log[i].e = "done"}
  IN  IF new = {} THEN parent
      ELSE IF \A i \in new : st.log[i].id = "none" /\ st.log[i].error = "none" THEN "idle"
      ELSE "retired"

Commit(st) ==
  /\ testRunner' = st.testRunner
  /\ timeout' = st.timeout
  /\ isStopped' = st.isStopped
  /\ failedTestId' = st.failedTestId
  /\ fatalError' = st.fatalError
  /\ entries' = st.entries
  /\ remaining' = st.remaining
  /\ program' = st.program
  /\ testId' = st.testId
  /\ testInfo' = st.testInfo
  /\ envInitialized' = st.envInitialized
  /\ info' = st.info
  /\ pc' = st.pc
  /\ chainB' = st.chainB
  /\ chainA' = st.chainA
  /\ expired' = st.expired
  /\ log' = st.log
  /\ UNCHANGED << dvars, rvars, pvars, svars, lvars >>

Step1(st) ==
  /\ Commit(st)
  /\ parent' = ParentAfter(st)
  /\ UNCHANGED << closed, exited, runsSent >>

\* new WorkerRunner(...) in the run handler of worker.ts.
NewRunner(st, E) ==
  [st EXCEPT !.testRunner = "runner", !.isStopped = FALSE, !.failedTestId = "none",
             !.fatalError = "none", !.entries = E, !.remaining = E, !.program = Program(E), !.testId = "null",
             !.testInfo = "null", !.envInitialized = FALSE,
             !.info = [t \in Tests |-> NoInfo],
             !.chainB = IdleChain, !.chainA = IdleChain, !.expired = {},
             !.log = <<Ev("run", "none", "none", "none", "none", E)>>]

\* run() and _loadIfNeeded up to the call of env.beforeAll.
StartRun(st) ==
  IF st.isStopped THEN RunReturned(st)
  ELSE [Emit(st, Call("env.beforeAll", "none"))
          EXCEPT !.pc = Pc("envBeforeAll", 0, Deadline(st, "own"))]

\* The parent sends run with the bucket E to the idle worker.
RunMessage(E) ==
  /\ ~exited /\ ~closed
  /\ parent = "idle"
  /\ runsSent < MaxRuns
  /\ Commit(StartRun(NewRunner(Cur, E)))
  /\ parent' = "assigned"
  /\ runsSent' = runsSent + 1
  /\ UNCHANGED << closed, exited >>

\* env.beforeAll settles before its deadline.
EnvBeforeAllSettles(outcome) ==
  /\ ~exited
  /\ pc.at = "envBeforeAll"
  /\ Step1(IF outcome = "throw" THEN RunRejected(Cur)
           ELSE IF isStopped THEN RunReturned([Cur EXCEPT !.envInitialized = TRUE])
           ELSE RunFrom([Cur EXCEPT !.envInitialized = TRUE], 1))

\* A beforeAll or afterAll hook settles before its deadline.
AllHookSettles(outcome) ==
  /\ ~exited
  /\ pc.at = "hook"
  /\ Step1(IF outcome = "throw" THEN RunRejected(Cur) ELSE RunFrom(Cur, pc.k + 1))

\* env.beforeEach settles before the deadline of the test.
EnvBeforeEachSettles(outcome) ==
  /\ ~exited
  /\ pc.at = "envBeforeEach"
  /\ Step1(AfterEnvBeforeEach(Cur, pc.k, outcome))

CurrentTest == program[pc.k].test

\* A beforeEach hook or the body of test t settles; run() resumes when it
\* still awaits this _runTestWithBeforeHooks call.
BeforeSettles(outcome) ==
  /\ ~exited
  /\ chainB.state \in {"hooks", "body"}
  /\ LET st == BeforeSettled(Cur, CurrentTest, outcome)
     IN  Step1(IF st.chainB.state = "done" /\ pc.at = "test"
                 THEN AfterTestRace(st, st.pc.k, FALSE)
                 ELSE st)

\* An afterEach hook or env.afterEach of test t settles.
AfterSettles(outcome) ==
  /\ ~exited
  /\ chainA.state \in {"hooks", "env"}
  /\ LET st == AfterSettled(Cur, CurrentTest, outcome)
     IN  Step1(IF st.chainA.state = "done" /\ pc.at = "after"
                 THEN AfterHooksRace(st, st.pc.k, FALSE)
               ELSE IF st.chainA.state = "done" /\ pc.at = "afterFresh"
                 THEN FinishSpec(st, st.pc.k)
               ELSE st)

\* For the record: which race was lost, of which test, against which deadline.
TimeoutEv(st) ==
  Ev("timeout", IF st.pc.at \in {"envBeforeAll", "hook"} THEN "none" ELSE st.program[st.pc.k].test,
     st.pc.at, "none", st.pc.deadline, {})

\* The timer of the race run() is suspended in fires.
DeadlineFires ==
  /\ ~exited
  /\ pc.deadline # "none"
  /\ LET st == Emit([Cur EXCEPT !.expired = @ \cup {pc.deadline}], TimeoutEv(Cur))
     IN  Step1(CASE pc.at = "envBeforeAll" ->
                      RunReturned([ReportDoneAndStop([st EXCEPT !.fatalError = "timeout env.beforeAll"])
                                     EXCEPT !.envInitialized = TRUE])
                 [] pc.at = "hook" ->
                      RunFrom(ReportDoneAndStop([st EXCEPT !.fatalError = "timeout hook"]), pc.k + 1)
                 [] pc.at = "envBeforeEach" -> AfterEnvBeforeEach(st, pc.k, "timedOut")
                 [] pc.at = "test" -> AfterTestRace(st, pc.k, TRUE)
                 [] pc.at = "after" -> AfterHooksRace(st, pc.k, TRUE)
                 [] pc.at = "afterFresh" -> FinishSpec(st, pc.k))

\* worker.ts: an unhandledRejection or uncaughtException event.
UnhandledError ==
  /\ ~exited
  /\ testRunner # "null"
  /\ Step1(UnhandledErr(Cur))

\* fixturePool.teardownScope('test') is called; the log keeps it for the record.
TeardownScope(st) == Emit(st, Ev("teardownScope", "none", "test", "none", "none", {}))

\* gracefullyCloseAndExit without its closed flag.
GracefullyCloseAndExitAgain ==
  /\ closed' = TRUE
  /\ Commit(TeardownScope(IF testRunner # "null" THEN StopRunner(Cur) ELSE Cur))
  /\ UNCHANGED << exited, parent, runsSent >>

\* worker.ts: gracefullyCloseAndExit up to its first await: the timer that
\* forces the exit is set and the teardown of the fixture scopes is started.
GracefullyCloseAndExit ==
  IF closed THEN UNCHANGED vars
  ELSE /\ closed' = TRUE
       /\ Commit(TeardownScope(IF testRunner # "null" THEN StopRunner(Cur) ELSE Cur))
       /\ UNCHANGED << exited, parent, runsSent >>

StopMessage == ~exited /\ GracefullyCloseAndExit

Disconnect == ~exited /\ GracefullyCloseAndExit

\* process.exit(0), after the teardown or from the 30 second timer: the
\* process and its memory are gone, what it has sent remains.
Exit ==
  /\ closed /\ ~exited
  /\ exited' = TRUE
  /\ Commit([NewRunner(Cur, {}) EXCEPT !.testRunner = "null", !.program = <<>>,
                                       !.pc = Pc("idle", 0, "none"), !.log = log])
  /\ UNCHANGED << closed, parent, runsSent >>

Next ==
  \/ \E E \in Buckets : RunMessage(E)
  \/ \E o \in {"ok", "throw"} : EnvBeforeAllSettles(o)
  \/ \E o \in {"ok", "throw"} : AllHookSettles(o)
  \/ \E o \in {"ok", "throw"} : EnvBeforeEachSettles(o)
  \/ \E o \in {"ok", "throw", "skip"} : BeforeSettles(o)
  \/ \E o \in {"ok", "throw", "skip"} : AfterSettles(o)
  \/ DeadlineFires
  \/ UnhandledError
  \/ StopMessage
  \/ Disconnect
  \/ Exit

Spec == Init /\ [][Next]_vars

(***************************************************************************)
(* What the log says.                                                      *)
(***************************************************************************)
Events(e) == {i \in DOMAIN log : log[i].e = e}

Begins(t) == {i \in Events("testBegin") : log[i].id = t}

Ends(t) == {i \in Events("testEnd") : log[i].id = t}

Calls(t, fn) == {i \in Events("call") : log[i].id = t /\ log[i].fn = fn}

\* The race `race` of test t was lost to its deadline before position i.
TimedOutBefore(i, t, race) ==
  \E j \in Events("timeout") : j < i /\ log[j].id = t /\ log[j].fn = race

AnyTimeoutBefore(i, t) == \E j \in Events("timeout") : j < i /\ log[j].id = t

\* The testEnd events _runSpec sends (unhandledError sends the others).
SpecEnds == {i \in Events("testEnd") : log[i].error # "unhandled"}

AfterEachCallables(t) ==
  {RunHooksList(SpecParent(t), "afterEach")[n] : n \in 1..Len(RunHooksList(SpecParent(t), "afterEach"))}
    \cup {"env.afterEach"}

\* The test of the attempt the chain records belong to.
CurAttempt == IF Events("testBegin") = {} THEN "none"
              ELSE log[CHOOSE i \in Events("testBegin") : \A j \in Events("testBegin") : j <= i].id

(***************************************************************************)
(* C1: every testEnd the worker sends is preceded by a testBegin with the  *)
(* same testId, and no testBegin gets a second testEnd.                    *)
(***************************************************************************)
C1_TestEndOncePerBegin ==
  \A i \in Events("testEnd") :
    Cardinality({j \in Ends(log[i].id) : j <= i}) <= Cardinality({j \in Begins(log[i].id) : j < i})

(***************************************************************************)
(* C2 as claimed: once the worker has sent done or has exited, every       *)
(* testBegin it sent has been followed by a testEnd with the same testId.  *)
(***************************************************************************)
C2_EveryBeginEndedAtDoneOrExit ==
  (exited \/ Events("done") # {}) =>
    \A t \in Tests : \A b \in Begins(t) : \E e \in Ends(t) : b < e

(***************************************************************************)
(* C2 as amended: every testBegin is followed by a testEnd with the same   *)
(* testId before the worker sends done, and a run that no stop message or  *)
(* disconnect has cut ends with a done.                                    *)
(***************************************************************************)
C2_EveryBeginEndedAtDone ==
  /\ \A d \in Events("done") : \A t \in Tests : \A b \in Begins(t) :
        b < d => \E e \in Ends(t) : b < e /\ e < d
  /\ (pc.at = "idle" /\ log # <<>> /\ ~closed) => Events("done") # {}

C2_Witness ==
  \E d \in Events("done") : \E e \in Events("testEnd") : e < d /\ log[e].status = "timedOut"

(***************************************************************************)
(* C3: when the race of the body and the beforeEach hooks of an attempt    *)
(* was lost to the deadline, the testEnd of the attempt has status         *)
(* timedOut.                                                               *)
(***************************************************************************)
C3_AbandonedBodyEndsTimedOut ==
  \A i \in SpecEnds : TimedOutBefore(i, log[i].id, "test") => log[i].status = "timedOut"

(***************************************************************************)
(* C4: after the body or a beforeEach hook outlasted the deadline, the     *)
(* afterEach hooks and env.afterEach are started and raced against a       *)
(* deadline of their own: the testEnd comes only after all of them were    *)
(* called once, or after that new deadline elapsed too.                    *)
(***************************************************************************)
C4_TeardownUnderFreshDeadline ==
  /\ pc.at = "afterFresh" => pc.deadline = "fresh" /\ "test" \in expired /\ "fresh" \notin expired
  /\ \A i \in SpecEnds :
       TimedOutBefore(i, log[i].id, "test") =>
         /\ \E c \in Calls(log[i].id, RunHooksList(SpecParent(log[i].id), "afterEach")[1]) : c < i
         /\ \/ \A fn \in AfterEachCallables(log[i].id) :
                 Cardinality({c \in Calls(log[i].id, fn) : c < i}) = 1
            \/ TimedOutBefore(i, log[i].id, "afterFresh")

C4_Witness ==
  \E i \in SpecEnds :
    /\ TimedOutBefore(i, log[i].id, "test")
    /\ ~TimedOutBefore(i, log[i].id, "afterFresh")
    /\ log[i].status = "timedOut"
    /\ \E c \in Calls(log[i].id, "env.afterEach") : c < i

(***************************************************************************)
(* C5: for an attempt whose env.beforeEach succeeded and that no deadline  *)
(* and no stop has cut, every afterEach hook of every ancestor suite has   *)
(* been called exactly once when testEnd is sent, whatever threw.          *)
(***************************************************************************)
C5_EveryAfterEachOnce ==
  \A i \in SpecEnds :
    ( /\ Calls(log[i].id, "env.beforeEach") # {}
      /\ log[i].error # "env.beforeEach"
      /\ ~AnyTimeoutBefore(i, log[i].id) )
    => \A fn \in AfterEachCallables(log[i].id) :
         Cardinality({c \in Calls(log[i].id, fn) : c < i}) = 1

C5_Witness ==
  \E i \in SpecEnds :
    /\ log[i].id = "t2"
    /\ log[i].error = "S.afterEach2"
    /\ ~AnyTimeoutBefore(i, "t2")
    /\ Calls("t2", "F.afterEach") # {}

\* The testEnd events _runSpec sent for the current attempt.
CurEnds == {i \in SpecEnds : log[i].id = CurAttempt /\ \A b \in Begins(CurAttempt) : b < i}

HookSet(s, type) == {HookFns(s, type)[n] : n \in 1..Len(HookFns(s, type))}

(***************************************************************************)
(* C6 as claimed: if any beforeEach hook of an attempt threw an error that *)
(* is no SkipError, the body is not called, the testEnd sent for the       *)
(* attempt has status failed with the error of that hook, and the          *)
(* afterEach hooks are still run.                                          *)
(***************************************************************************)
C6_AnyBeforeEachErrorReported ==
  \A i \in CurEnds :
    chainB.threw # {} =>
      /\ Calls(CurAttempt, "body") = {}
      /\ log[i].status = "failed"
      /\ \A h \in chainB.threw : log[i].error = h
      /\ Calls(CurAttempt, RunHooksList(SpecParent(CurAttempt), "afterEach")[1]) # {}

(***************************************************************************)
(* C6 as amended: once a beforeEach hook of an attempt has thrown an error *)
(* that is no SkipError the body is never called, and the afterEach hooks  *)
(* are run before testEnd; the testEnd has status failed with the error of *)
(* the first beforeEach hook that threw, when the beforeEach hooks have    *)
(* all settled by then and that first error is no SkipError.               *)
(***************************************************************************)
C6_FirstBeforeEachErrorReported ==
  /\ chainB.threw # {} => Calls(CurAttempt, "body") = {}
  /\ \A i \in CurEnds :
       chainB.threw # {} =>
         /\ Calls(CurAttempt, RunHooksList(SpecParent(CurAttempt), "afterEach")[1]) # {}
         /\ (chainB.state = "done" /\ chainB.err # "skip") =>
              /\ log[i].status = "failed"
              /\ log[i].error = chainB.err
              /\ log[i].error \in chainB.threw

C6_Witness ==
  \E i \in CurEnds :
    /\ chainB.threw = {"F.beforeEach", "S.beforeEach"}
    /\ chainB.state = "done"
    /\ log[i].status = "failed"
    /\ log[i].error = "F.beforeEach"
    /\ Calls("t2", "env.afterEach") # {}

(***************************************************************************)
(* C7: when a run has ended, every suite with a test to run that began one *)
(* of its tests has had each beforeAll hook called exactly once, before    *)
(* the first testBegin of the suite, and each afterAll hook called exactly *)
(* once, after the last testEnd of the suite.                              *)
(***************************************************************************)
C7_AllHooksSurroundTests ==
  (pc.at = "idle" /\ Events("done") # {} /\ ~closed) =>
    \A s \in Suites :
      (HasTestsToRun(s, entries) /\ \E t \in SpecsUnder(s) : Begins(t) # {}) =>
        /\ \A fn \in HookSet(s, "beforeAll") :
             /\ Cardinality(Calls("none", fn)) = 1
             /\ \A c \in Calls("none", fn) : \A t \in SpecsUnder(s) : \A b \in Begins(t) : c < b
        /\ \A fn \in HookSet(s, "afterAll") :
             /\ Cardinality(Calls("none", fn)) = 1
             /\ \A c \in Calls("none", fn) : \A t \in SpecsUnder(s) : \A e \in Ends(t) : e < c

(***************************************************************************)
(* C8: the worker sends no testBegin while a test is open: every earlier   *)
(* testBegin has by then been closed by its testEnd or by a done.          *)
(***************************************************************************)
C8_NoOverlappingTests ==
  \A i \in Events("testBegin") : \A j \in Events("testBegin") :
    j < i => \E m \in DOMAIN log :
               /\ j < m /\ m < i
               /\ \/ log[m].e = "testEnd" /\ log[m].id = log[j].id
                  \/ log[m].e = "done"

C8_Witness ==
  /\ Begins("t1") # {} /\ Begins("t2") # {} /\ Begins("t3") # {}
  /\ Ends("t2") # {}

(***************************************************************************)
(* C12: a worker that has exited after a stop message or a disconnect cut  *)
(* its run has sent a done message for that run.                           *)
(***************************************************************************)
C12_DoneBeforeExit ==
  (exited /\ log # <<>>) => Events("done") # {}

\* The test that has begun and has not ended, or "none".
TestInFlight ==
  IF CurAttempt = "none" THEN "none"
  ELSE LET b == CHOOSE i \in Begins(CurAttempt) : \A j \in Begins(CurAttempt) : j <= i
       IN  IF \E e \in Ends(CurAttempt) : e > b THEN "none" ELSE CurAttempt

(***************************************************************************)
(* C13: an unhandled error that reaches a runner that is not stopped while *)
(* a test is in flight makes the worker send testEnd for that test with    *)
(* status failed and the error, then done with that test as failedTestId,  *)
(* and nothing else.                                                       *)
(***************************************************************************)
C13_UnhandledErrorEndsTestInFlight ==
  [][(UnhandledError /\ ~isStopped /\ TestInFlight # "none") =>
       /\ log' = log \o << Ev("testEnd", TestInFlight, "none", "failed", "unhandled", {}),
                            Ev("done", TestInFlight, "none", "none", fatalError, remaining) >>
       /\ failedTestId' = TestInFlight
       /\ isStopped']_vars

C13_Witness ==
  \E i \in Events("testEnd") :
    /\ log[i].error = "unhandled" /\ log[i].status = "failed"
    /\ Cardinality(Ends(log[i].id)) = 1
    /\ \E b \in Begins(log[i].id) : b < i
    /\ i + 1 \in Events("done") /\ log[i + 1].id = log[i].id
    /\ failedTestId = log[i].id
    /\ parent = "retired"

(***************************************************************************)
(* The dispatcher (spec.md, section 4.2).  It runs the tests of the file   *)
(* above: it keeps a queue of pending buckets and a pool of worker slots,  *)
(* and handles the messages of the workers and their deaths.  What a       *)
(* worker can send, and in which order, is that of WorkerRunner.           *)
(***************************************************************************)
Retries == 2

Workers == 2

Slots == 1..Workers

Statuses == {"passed", "failed", "timedOut", "skipped"}

\* An entry of a bucket: a test and the number of the attempt to run.
Entry(t, r) == [test |-> t, retry |-> r]

\* The bucket of the file, in the order the worker runs its specs.
FileBucket ==
  LET specs == SelectSeq(Program(Tests), LAMBDA x : x.kind = "spec")
  IN  [i \in 1..Len(specs) |-> Entry(specs[i].test, 0)]

TestResult(r, status, error) == [retry |-> r, status |-> status, error |-> error]

IdleSlot == [state |-> "idle", entries |-> <<>>, pos |-> 1, inflight |-> "none", ended |-> "none"]

DCur == [queue |-> queue, slot |-> slot, results |-> results]

\* The entries of the bucket of slot w whose testBegin has not been received.
NotBegun(d, w) == SubSeq(d.slot[w].entries, d.slot[w].pos, Len(d.slot[w].entries))

\* The attempt of test t that slot w runs or ran.
AttemptOf(d, w, t) ==
  LET i == CHOOSE i \in 1..Len(d.slot[w].entries) : d.slot[w].entries[i].test = t
  IN  d.slot[w].entries[i].retry

\* Mutant of ShouldRetry: retries although no attempt remains.
ShouldRetryWithoutLimit(t, attempt, status) ==
  status \in {"failed", "timedOut"} /\ ExpectedStatus(t) = "passed"

\* Mutant of ShouldRetry: retries whatever the expected status.
ShouldRetryAnyExpected(t, attempt, status) ==
  status \in {"failed", "timedOut"} /\ attempt < Retries

\* The test failed, attempts remain and its expected status is passed.
ShouldRetry(t, attempt, status) ==
  /\ status \in {"failed", "timedOut"}
  /\ attempt < Retries
  /\ ExpectedStatus(t) = "passed"

\* On testBegin: the attempt gets its TestResult.
OnTestBegin(d, w) ==
  LET e == d.slot[w].entries[d.slot[w].pos]
  IN  [d EXCEPT !.results[e.test] = Append(@, TestResult(e.retry, "none", "none")),
                !.slot[w].pos = @ + 1,
                !.slot[w].inflight = e.test,
                !.slot[w].ended = "none"]

\* On testEnd of test t: the result of the attempt gets its status; a retry
\* bucket with the next attempt goes to the front of the queue.
OnTestEnd(d, w, t, status, error) ==
  LET attempt == AttemptOf(d, w, t)
      d1 == [d EXCEPT !.results[t] = [@ EXCEPT ![Len(@)] = TestResult(attempt, status, error)],
                      !.slot[w].inflight = "none",
                      !.slot[w].ended = t]
  IN  IF ShouldRetry(t, attempt, status)
        THEN [d1 EXCEPT !.queue = << <<Entry(t, attempt + 1)>> >> \o @]
        ELSE d1

\* On done: the slot is idle again, the remaining entries are a new bucket.
OnDone(d, w, rem) ==
  [d EXCEPT !.slot[w] = IdleSlot,
            !.queue = IF rem = <<>> THEN @ ELSE Append(@, rem)]

\* On done with a fatal error: the remaining tests of the bucket are failed
\* and not retried.
RECURSIVE FailAll(_, _)
FailAll(res, rem) ==
  IF rem = <<>> THEN res
  ELSE FailAll([res EXCEPT ![Head(rem).test] = Append(@, TestResult(Head(rem).retry, "failed", "fatal"))],
               Tail(rem))

OnFatalDone(d, w) ==
  [d EXCEPT !.results = FailAll(@, NotBegun(d, w)), !.slot[w] = IdleSlot]

\* Mutant of OnExit: the entries the dead worker had not begun are dropped.
OnExitDropsRemaining(d, w) ==
  LET d1 == IF d.slot[w].inflight # "none"
              THEN OnTestEnd(d, w, d.slot[w].inflight, "failed", "crash")
              ELSE d
  IN  OnDone(d1, w, <<>>)

\* On the death of a worker that has not sent done.
OnExit(d, w) ==
  LET d1 == IF d.slot[w].inflight # "none"
              THEN OnTestEnd(d, w, d.slot[w].inflight, "failed", "crash")
              ELSE d
  IN  OnDone(d1, w, NotBegun(d, w))

DispatcherInit ==
  /\ WorkerReady
  /\ timeout = 0
  /\ queue = <<FileBucket>>
  /\ slot = [w \in Slots |-> IdleSlot]
  /\ results = [t \in Tests |-> <<>>]
  /\ RunnerIdle
  /\ cfg = Config(0, FALSE, FALSE, FALSE)
  /\ NoPaths
  /\ NoShard
  /\ NoTree
  /\ NoEnvs

\* The dispatcher forwards testBegin and testEnd to the reporter.
ReportTestEvent(rep) ==
  IF rep # <<>> /\ rep[Len(rep)] = "onTestEvent" THEN rep ELSE Append(rep, "onTestEvent")

DStep(d) ==
  /\ queue' = d.queue
  /\ slot' = d.slot
  /\ results' = d.results
  /\ reporter' = IF d.results # results THEN ReportTestEvent(reporter) ELSE reporter
  /\ UNCHANGED << wvars, rvars0, pvars, svars, lvars >>

\* While pending is non-empty and an idle slot exists, pop a bucket and assign it.
Assign(w) ==
  /\ queue # <<>>
  /\ slot[w].state = "idle"
  /\ DStep([DCur EXCEPT !.queue = Tail(@),
                        !.slot[w] = [IdleSlot EXCEPT !.state = "assigned", !.entries = Head(queue)]])

CanBegin(w) ==
  /\ slot[w].state = "assigned"
  /\ slot[w].inflight = "none"
  /\ slot[w].pos <= Len(slot[w].entries)

\* The worker of slot w starts its next spec: testBegin, and for a spec that
\* an ancestor skips the testEnd with it.
WorkerBegins(w) ==
  /\ CanBegin(w)
  /\ LET t == slot[w].entries[slot[w].pos].test
     IN  DStep(IF ExpectedStatus(t) = "skipped"
                 THEN OnTestEnd(OnTestBegin(DCur, w), w, t, "skipped", "none")
                 ELSE OnTestBegin(DCur, w))

\* The worker ends the test in flight; after a status other than passed it
\* reports done with that test as failedTestId and the entries it has not begun.
WorkerEnds(w, status) ==
  /\ slot[w].state = "assigned"
  /\ slot[w].inflight # "none"
  /\ LET d == OnTestEnd(DCur, w, slot[w].inflight, status, IF status = "failed" THEN "test" ELSE "none")
     IN  DStep(IF status # "passed" THEN OnDone(d, w, NotBegun(d, w)) ELSE d)

\* The worker has walked its bucket: done with nothing remaining.
WorkerDone(w) ==
  /\ slot[w].state = "assigned"
  /\ slot[w].inflight = "none"
  /\ slot[w].pos > Len(slot[w].entries)
  /\ DStep(OnDone(DCur, w, <<>>))

\* An unhandled error or a hook timeout while no test is in flight.  After a
\* spec that an ancestor skips, the worker still holds that test as its current
\* one and sends a testEnd for it before done.
WorkerFatal(w) ==
  /\ slot[w].state = "assigned"
  /\ slot[w].inflight = "none"
  /\ LET t == slot[w].ended
     IN  DStep(IF t # "none" /\ ExpectedStatus(t) = "skipped"
                 THEN OnDone(OnTestEnd(DCur, w, t, "failed", "unhandled"), w, NotBegun(DCur, w))
                 ELSE OnFatalDone(DCur, w))

\* The worker process dies without done.
WorkerDies(w) ==
  /\ slot[w].state = "assigned"
  /\ DStep(OnExit(DCur, w))

DispatcherNext ==
  \E w \in Slots :
    \/ Assign(w)
    \/ WorkerBegins(w)
    \/ \E status \in Statuses : WorkerEnds(w, status)
    \/ WorkerDone(w)
    \/ WorkerFatal(w)
    \/ WorkerDies(w)

DispatcherSpec == DispatcherInit /\ [][DispatcherNext]_vars

\* The attempts that are scheduled and have not begun: the entries of the
\* pending buckets and those the assigned workers have not begun.
Range(q) == {q[i] : i \in DOMAIN q}

Scheduled ==
  UNION {Range(queue[i]) : i \in DOMAIN queue}
    \cup UNION {Range(NotBegun(DCur, w)) : w \in DOMAIN slot}

InFlight == {slot[w].inflight : w \in DOMAIN slot} \ {"none"}

\* The dispatcher has completed: nothing pending, every slot idle.
Completed == queue = <<>> /\ \A w \in DOMAIN slot : slot[w].state = "idle"

(***************************************************************************)
(* C9: every test has at most 1 + retries TestResults, the k-th of them    *)
(* carries retry k - 1, and once a result is passed no later result exists *)
(* and no attempt of the test is scheduled or runs.                        *)
(***************************************************************************)
C9_ResultsBoundedByRetries ==
  \A t \in Tests :
    /\ Len(results[t]) <= 1 + Retries
    /\ \A k \in DOMAIN results[t] : results[t][k].retry = k - 1
    /\ \A k \in DOMAIN results[t] :
         results[t][k].status = "passed" =>
           /\ k = Len(results[t])
           /\ \A e \in Scheduled : e.test # t
           /\ t \notin InFlight

C9_Witness ==
  /\ Completed
  /\ Len(results["t1"]) = 1 + Retries
  /\ results["t1"][1].error = "crash"
  /\ results["t1"][2].status = "timedOut"
  /\ results["t1"][Len(results["t1"])].status = "passed"
  /\ Len(results["t2"]) = 1
  /\ Len(results["t3"]) = 1

\* Attempt r - 1 of test t (counted from 1) ended so that a retry is due.
Retried(t, r) ==
  /\ r - 1 \in DOMAIN results[t]
  /\ results[t][r - 1].retry = r - 2
  /\ results[t][r - 1].status \in {"failed", "timedOut"}
  /\ ExpectedStatus(t) = "passed"

(***************************************************************************)
(* C10: an attempt after the first is scheduled, runs or has a result only *)
(* when the previous attempt of the test ended failed or timedOut and the  *)
(* expected status of the test is passed.                                  *)
(***************************************************************************)
C10_RetryOnlyUnexpectedFailure ==
  /\ \A e \in Scheduled : e.retry >= 1 => Retried(e.test, e.retry + 1)
  /\ \A t \in Tests : \A k \in DOMAIN results[t] : k >= 2 => Retried(t, k)

C10_Witness ==
  /\ Completed
  /\ Retries >= 1
  /\ Len(results["t2"]) = 1 /\ results["t2"][1].status = "failed"
  /\ Len(results["t1"]) = 2 /\ results["t1"][1].status = "failed"

(***************************************************************************)
(* The dispatcher with the scheduling its event loop and its workers give: *)
(* an idle slot is assigned a pending bucket, a worker with a bucket sends *)
(* its next message or dies, and a worker that is given buckets again and  *)
(* again does not die before its first testBegin every time.               *)
(***************************************************************************)
WorkerStep(w) ==
  \/ \E status \in Statuses : WorkerEnds(w, status)
  \/ WorkerDone(w)
  \/ WorkerFatal(w)
  \/ WorkerDies(w)

DispatcherFairSpec ==
  /\ DispatcherSpec
  /\ \A w \in Slots : WF_vars(Assign(w)) /\ SF_vars(WorkerBegins(w)) /\ WF_vars(WorkerStep(w))

\* Where test t is pending or in flight: in a bucket of the queue, among the
\* entries a slot has not begun, or in flight in a slot.
Places(t) ==
  (UNION {{<<"queue", i, j>> : j \in {k \in DOMAIN queue[i] : queue[i][k].test = t}} : i \in DOMAIN queue})
    \cup (UNION {{<<"slot", w, j>> : j \in {k \in DOMAIN slot[w].entries :
                                               k >= slot[w].pos /\ slot[w].entries[k].test = t}}
                   : w \in DOMAIN slot})
    \cup {<<"inflight", w, 0>> : w \in {v \in DOMAIN slot : slot[v].inflight = t}}

NoTestLostOrTwice ==
  /\ \A t \in Tests :
       /\ Cardinality(Places(t)) <= 1
       /\ results[t] = <<>> => Places(t) # {}
  /\ \A e \in Scheduled : e.retry = Len(results[e.test])
  /\ \A w \in DOMAIN slot :
       slot[w].inflight # "none" =>
         /\ results[slot[w].inflight] # <<>>
         /\ results[slot[w].inflight][Len(results[slot[w].inflight])].status = "none"

RCur ==
  [ rpc |-> rpc, returned |-> returned, cli |-> cli, result |-> result, exitCode |-> exitCode,
    didBegin |-> didBegin, sigint |-> sigint, sigintHandler |-> sigintHandler,
    sigintAt |-> sigintAt, hasWorkerErrors |-> hasWorkerErrors, outputDeleted |-> outputDeleted,
    dispatcherCreated |-> dispatcherCreated, globalHooks |-> globalHooks, reporter |-> reporter ]

Report(r, callback) == [r EXCEPT !.reporter = Append(@, callback)]

\* Mutant of ExitCodeOf: a run cut by SIGINT exits like a failed run.
ExitCodeOfSigintAsFailed(res) ==
  IF res \in {"sigint", "forbid-only", "no-tests", "failed"} THEN 1 ELSE 0

\* cli.ts: the exit code of a run result.
ExitCodeOf(res) ==
  IF res = "sigint" THEN 130
  ELSE IF res \in {"forbid-only", "no-tests"} THEN 1
  ELSE IF res = "failed" THEN 1 ELSE 0

ProcessExit(r, code) == [r EXCEPT !.cli = "exited", !.exitCode = code]

\* cli.ts: runner.run has returned res; the process exits at once, or waits
\* for stdout and stderr to drain first.
AfterRun(r, res, needDrain) ==
  IF needDrain THEN [r EXCEPT !.result = res, !.cli = "drain"]
  ELSE ProcessExit([r EXCEPT !.result = res], ExitCodeOf(res))

\* The promise of _run settles: it resolves with what _run returned, or rejects
\* (threw).  While run awaits it, run returns or throws the same; the main
\* function of cli.ts catches what is thrown and exits with 1.
RunSettled(r, threw, needDrain) ==
  LET r1 == [r EXCEPT !.rpc = IF threw THEN "rejected" ELSE "resolved"]
  IN  IF r.cli # "running" THEN r1
      ELSE IF threw THEN ProcessExit(r1, 1)
      ELSE AfterRun(r1, r1.returned, needDrain)

GlobalHook(r, hook) == [r EXCEPT !.globalHooks = Append(@, [hook |-> hook, at |-> Len(r.reporter)])]

\* The finally block of _run: the global teardown, when there is one.
Finally(r, threw, in) ==
  IF in.globalTeardown
    THEN [GlobalHook(r, "globalTeardown") EXCEPT !.rpc = IF threw THEN "teardownThrew" ELSE "teardown"]
    ELSE RunSettled(GlobalHook(r, "noGlobalTeardown"), threw, in.needDrain)

\* Mutant of Return: a return statement of _run that the finally block does not see.
ReturnPastFinally(r, res, in) == RunSettled([r EXCEPT !.returned = res], FALSE, in.needDrain)

\* A return statement in the try block of _run.
Return(r, res, in) == Finally([r EXCEPT !.returned = res], FALSE, in)

\* Mutant of ForbidOnlyFound: forbidOnly is not looked at.
ForbidOnlyIgnored == FALSE

\* _run: forbidOnly is set and the loaded suites hold an only marker.
ForbidOnlyFound == cfg.forbidOnly /\ cfg.hasOnly

\* _run from the loading of the test files to the removal of the output
\* directories.
LoadAndPlan(r, in) ==
  IF in.load = "throw" THEN Finally(r, TRUE, in)
  ELSE IF ForbidOnlyFound THEN Return(r, "forbid-only", in)
  ELSE IF in.total = 0 THEN Return(r, "no-tests", in)
  ELSE [r EXCEPT !.outputDeleted = TRUE, !.rpc = "rm"]

\* The final outcome of a test, from its results and its expected status.
Outcome(res, expected) ==
  IF res = <<>> THEN "none"
  ELSE IF res[Len(res)].status = "skipped" THEN "skipped"
  ELSE IF Len(res) = 1 /\ res[1].status = expected THEN "expected"
  ELSE IF \E i \in DOMAIN res : res[i].status = expected THEN "flaky"
  ELSE "unexpected"

\* Spec.ok of the spec of test t.
Ok(res, t) == Outcome(res[t], ExpectedStatus(t)) # "unexpected"

\* The tests that carry an only marker, when the loaded suites hold one.
OnlyTests == {"t1"}

\* filterOnly: the tests of the root suite.
RootTests == IF cfg.hasOnly THEN OnlyTests ELSE Tests

\* Mutant of RunResult: worker errors do not fail the run.
RunResultOfTestsOnly(r, res) ==
  IF r.sigint THEN "sigint"
  ELSE IF \E t \in RootTests : ~Ok(res, t) THEN "failed" ELSE "passed"

\* _run: the value it returns after onEnd.
RunResult(r, res) ==
  IF r.sigint THEN "sigint"
  ELSE IF r.hasWorkerErrors \/ \E t \in RootTests : ~Ok(res, t) THEN "failed" ELSE "passed"

\* _run after the output directories are removed: the SIGINT handler, onBegin,
\* and in list mode onEnd and the result.
Begin(r, in) ==
  LET r1 == [Report(r, "onBegin") EXCEPT !.sigintHandler = TRUE, !.didBegin = TRUE]
  IN  IF in.list
        THEN Return(Report(r1, "onEnd"), IF in.listOk THEN "passed" ELSE "failed", in)
        ELSE [r1 EXCEPT !.dispatcherCreated = TRUE, !.rpc = "dispatch"]

\* _run after dispatcher.stop(): onEnd and the result.
End(r, res, in) ==
  LET r1 == Report([r EXCEPT !.hasWorkerErrors = in.hasWorkerErrors], "onEnd")
  IN  Return(r1, RunResult(r1, res), in)

\* run after it lost the race against the global deadline.
RunTimedOut(r) ==
  Report(IF ~r.didBegin THEN Report(r, "onBegin") ELSE r, "onTimeout")

RStep(r) ==
  /\ rpc' = r.rpc
  /\ returned' = r.returned
  /\ cli' = r.cli
  /\ result' = r.result
  /\ exitCode' = r.exitCode
  /\ didBegin' = r.didBegin
  /\ sigint' = r.sigint
  /\ sigintHandler' = r.sigintHandler
  /\ sigintAt' = r.sigintAt
  /\ hasWorkerErrors' = r.hasWorkerErrors
  /\ outputDeleted' = r.outputDeleted
  /\ dispatcherCreated' = r.dispatcherCreated
  /\ globalHooks' = r.globalHooks
  /\ reporter' = r.reporter
  /\ UNCHANGED << cfg, wvars, pvars, svars, lvars >>

\* What _run reads when it goes on: of the configuration, the file system, the
\* dispatcher and the output streams.
PlanInputs ==
  [load : {"ok", "throw"}, total : {0, Cardinality(RootTests)}, globalTeardown : BOOLEAN,
   needDrain : BOOLEAN]

BeginInputs == [list : BOOLEAN, listOk : BOOLEAN, globalTeardown : BOOLEAN, needDrain : BOOLEAN]

EndInputs == [hasWorkerErrors : BOOLEAN, globalTeardown : BOOLEAN, needDrain : BOOLEAN]

RunnerInit ==
  /\ WorkerReady
  /\ timeout = 0
  /\ DispatcherIdle
  /\ NoPaths
  /\ NoShard
  /\ NoTree
  /\ NoEnvs
  /\ RunnerIdle
  /\ cfg \in {Config(g, c[1], c[2], c[3]) :
                g \in {0, 1},
                c \in {<<FALSE, FALSE, FALSE>>, <<TRUE, FALSE, TRUE>>, <<TRUE, TRUE, TRUE>>}}

\* cli.ts calls runner.run: _run up to collectFiles; a test directory that
\* does not exist makes it throw.
RunnerRun(o) ==
  /\ cli = "running" /\ rpc = "idle"
  /\ RStep(IF o = "throw" THEN RunSettled(RCur, TRUE, FALSE) ELSE [RCur EXCEPT !.rpc = "collect"])
  /\ UNCHANGED dvars

CollectFilesSettles(o, in) ==
  /\ cli # "exited" /\ rpc = "collect"
  /\ RStep(IF o = "throw" THEN RunSettled(RCur, TRUE, in.needDrain)
           ELSE IF cfg.globalSetup THEN [RCur EXCEPT !.rpc = "setup"]
           ELSE LoadAndPlan(RCur, in))
  /\ UNCHANGED dvars

GlobalSetupSettles(o, in) ==
  /\ cli # "exited" /\ rpc = "setup"
  /\ RStep(IF o = "throw" THEN RunSettled(RCur, TRUE, in.needDrain)
           ELSE LoadAndPlan(GlobalHook(RCur, "globalSetup"), in))
  /\ UNCHANGED dvars

\* removeFolderAsync of every output directory has settled.
RemoveFolderSettles(in) ==
  /\ cli # "exited" /\ rpc = "rm"
  /\ LET r == Begin(RCur, in)
     IN  /\ RStep(r)
         /\ IF r.rpc = "dispatch"
              THEN /\ queue' = <<SelectSeq(FileBucket, LAMBDA e : e.test \in RootTests)>>
                   /\ slot' = [w \in Slots |-> IdleSlot]
                   /\ results' = [t \in Tests |-> <<>>]
              ELSE UNCHANGED dvars

\* The dispatcher and its workers, while the process lives.
Dispatch ==
  /\ cli # "exited" /\ rpc = "dispatch"
  /\ DispatcherNext

\* dispatcher.run() resolves: nothing pending, every slot idle.
\* dispatcher.stop(): nothing is assigned any more and the workers are stopped;
\* the results the tests have got stay.
DispatcherStop ==
  /\ queue' = <<>>
  /\ slot' = <<>>
  /\ UNCHANGED results

DispatcherRunResolves ==
  /\ cli # "exited" /\ rpc = "dispatch"
  /\ Completed
  /\ RStep([RCur EXCEPT !.rpc = "stop"])
  /\ DispatcherStop

\* dispatcher.run() rejects, or the dispatcher cannot be created: _run leaves
\* the try block without dispatcher.stop() and onEnd.  Nothing reads the
\* dispatcher any more: it is not followed.
DispatcherRunRejects(in) ==
  /\ cli # "exited" /\ rpc = "dispatch"
  /\ RStep(Finally(RCur, TRUE, in))
  /\ queue' = <<>>
  /\ slot' = <<>>
  /\ results' = [t \in Tests |-> <<>>]

\* SIGINT, once the handler of _run is installed.
Sigint ==
  /\ cli # "exited" /\ sigintHandler
  /\ RStep([RCur EXCEPT !.sigintHandler = FALSE, !.sigint = TRUE, !.sigintAt = rpc,
                        !.rpc = IF rpc = "dispatch" THEN "stop" ELSE @])
  /\ IF rpc = "dispatch" THEN DispatcherStop ELSE UNCHANGED dvars

DispatcherStopResolves(in) ==
  /\ cli # "exited" /\ rpc = "stop"
  /\ RStep(End(RCur, results, in))
  /\ UNCHANGED dvars

GlobalTeardownSettles(o, needDrain) ==
  /\ cli # "exited" /\ rpc \in {"teardown", "teardownThrew"}
  /\ RStep(RunSettled(RCur, o = "throw" \/ rpc = "teardownThrew", needDrain))
  /\ UNCHANGED dvars

\* The timer of the race of run fires.
GlobalDeadlineFires(needDrain) ==
  /\ cli = "running"
  /\ cfg.globalTimeout # 0
  /\ rpc \in {"collect", "setup", "rm", "dispatch", "stop", "teardown", "teardownThrew"}
  /\ RStep(AfterRun(RunTimedOut(RCur), "failed", needDrain))
  /\ UNCHANGED dvars

\* stdout and stderr have drained.
Drained ==
  /\ cli = "drain"
  /\ RStep(ProcessExit(RCur, ExitCodeOf(result)))
  /\ UNCHANGED dvars

RunnerNext ==
  \/ \E o \in {"ok", "throw"} : RunnerRun(o)
  \/ \E o \in {"ok", "throw"}, in \in PlanInputs : CollectFilesSettles(o, in)
  \/ \E o \in {"ok", "throw"}, in \in PlanInputs : GlobalSetupSettles(o, in)
  \/ \E in \in BeginInputs : RemoveFolderSettles(in)
  \/ Dispatch
  \/ DispatcherRunResolves
  \/ \E in \in EndInputs : DispatcherRunRejects(in)
  \/ Sigint
  \/ \E in \in EndInputs : DispatcherStopResolves(in)
  \/ \E o \in {"ok", "throw"}, needDrain \in BOOLEAN : GlobalTeardownSettles(o, needDrain)
  \/ \E needDrain \in BOOLEAN : GlobalDeadlineFires(needDrain)
  \/ Drained

RunnerSpec == RunnerInit /\ [][RunnerNext]_vars

\* run has lost its race against the global deadline.
RunTimedOutBefore == \E i \in DOMAIN reporter : reporter[i] = "onTimeout"

(***************************************************************************)
(* C14 as claimed: once _run has found an only marker with forbidOnly set, *)
(* and unless the global teardown throws, no reporter callback is called,  *)
(* no output directory is deleted, no dispatcher is created, and the       *)
(* process exits with the forbid-only result and code 1.                   *)
(***************************************************************************)
C14_ForbidOnlySilent ==
  (returned = "forbid-only" /\ rpc # "rejected") =>
    /\ reporter = <<>>
    /\ ~outputDeleted /\ ~dispatcherCreated
    /\ cli = "exited" => (result = "forbid-only" /\ exitCode = 1)

(***************************************************************************)
(* C14 as amended: with forbidOnly set and an only marker in the loaded    *)
(* suites, no output directory is deleted, no dispatcher is created and    *)
(* the exit code is 1; the only reporter callbacks are the onBegin and     *)
(* onTimeout of a global timeout; and when run did not time out and _run   *)
(* resolved, the result is forbid-only and no reporter callback was called.*)
(***************************************************************************)
C14_ForbidOnlyNoDispatch ==
  (cfg.forbidOnly /\ cfg.hasOnly) =>
    /\ ~outputDeleted /\ ~dispatcherCreated
    /\ returned \in {"none", "forbid-only"}
    /\ reporter \in {<<>>, <<"onBegin", "onTimeout">>}
    /\ cli = "exited" => exitCode = 1
    /\ (cli = "exited" /\ ~RunTimedOutBefore /\ rpc = "resolved") =>
         (result = "forbid-only" /\ reporter = <<>>)

C14_Witness ==
  /\ cfg.forbidOnly /\ cfg.hasOnly
  /\ cli = "exited" /\ result = "forbid-only" /\ exitCode = 1
  /\ reporter = <<>> /\ ~outputDeleted /\ ~dispatcherCreated

(***************************************************************************)
(* C15: onBegin is called at most once in a run, and it is the first       *)
(* reporter callback of the run, also when the global timeout cuts it.     *)
(***************************************************************************)
C15_OnBeginOnceAndFirst ==
  /\ Cardinality({i \in DOMAIN reporter : reporter[i] = "onBegin"}) <= 1
  /\ reporter # <<>> => reporter[1] = "onBegin"

(***************************************************************************)
(* C16: when run has lost its race against the global deadline, onTimeout  *)
(* has been called once, onEnd is not called in that run, before or after, *)
(* and the result is failed, with exit code 1.                             *)
(***************************************************************************)
C16_OnTimeoutInPlaceOfOnEnd ==
  RunTimedOutBefore =>
    /\ Cardinality({i \in DOMAIN reporter : reporter[i] = "onTimeout"}) = 1
    /\ \A i \in DOMAIN reporter : reporter[i] # "onEnd"
    /\ result = "failed"
    /\ cli = "exited" => exitCode = 1

\* The status of the last result of test t.
LastStatus(t) == IF results[t] = <<>> THEN "none" ELSE results[t][Len(results[t])].status

(***************************************************************************)
(* C19 as claimed: the result of a run that has dispatched its tests is    *)
(* failed if and only if a worker error occurred or the final outcome of   *)
(* some test is unexpected.                                                *)
(***************************************************************************)
C19_FailedIffUnexpected ==
  (cli = "exited" /\ dispatcherCreated /\ rpc # "rejected") =>
    (result = "failed" <=>
       (hasWorkerErrors \/ \E t \in RootTests : Outcome(results[t], ExpectedStatus(t)) = "unexpected"))

(***************************************************************************)
(* C19 as amended: when _run comes to its result without SIGINT, what it   *)
(* returns is failed if and only if a worker error occurred or the final   *)
(* outcome of some test is unexpected; it is passed when there is no       *)
(* worker error and the last result of every test has its expected status  *)
(* (an expected failure, a test that passed after a failed attempt), and   *)
(* failed when a test whose expected status is failed has passed; and run  *)
(* returns the same unless it timed out or the global teardown threw.      *)
(***************************************************************************)
C19_ReturnedFailedIffUnexpected ==
  (dispatcherCreated /\ returned \in {"passed", "failed"}) =>
    /\ returned = "failed" <=>
         (hasWorkerErrors \/ \E t \in RootTests : Outcome(results[t], ExpectedStatus(t)) = "unexpected")
    /\ (~hasWorkerErrors /\ \A t \in RootTests : LastStatus(t) = ExpectedStatus(t)) => returned = "passed"
    /\ (\E t \in RootTests : ExpectedStatus(t) = "failed" /\ LastStatus(t) = "passed") => returned = "failed"
    /\ (cli = "exited" /\ ~RunTimedOutBefore /\ rpc = "resolved") => result = returned

C19_Witness ==
  /\ cli = "exited" /\ result = "passed" /\ exitCode = 0
  /\ ~hasWorkerErrors
  /\ Len(results["t1"]) = 2
  /\ results["t1"][1].status = "failed" /\ results["t1"][2].status = "passed"
  /\ Len(results["t2"]) = 1 /\ results["t2"][1].status = "failed"

(***************************************************************************)
(* C20 as claimed: the process exits with 130 exactly when SIGINT was      *)
(* handled during dispatch, with 1 when the result is failed, forbid-only  *)
(* or no-tests, after a global timeout and after a thrown error, and with  *)
(* 0 only when the result is passed.                                       *)
(***************************************************************************)
C20_ExitCode130IffSigint ==
  cli = "exited" =>
    /\ exitCode = 130 <=> sigintAt \in {"dispatch", "stop"}
    /\ (result \in {"failed", "forbid-only", "no-tests"} \/ RunTimedOutBefore \/ result = "none") => exitCode = 1
    /\ exitCode = 0 => result = "passed"

(***************************************************************************)
(* C20 as amended: the process exits with 130 exactly when SIGINT was      *)
(* handled during dispatch or the stop of the dispatcher, run did not time *)
(* out and _run resolved; with 0 exactly when _run returned passed, run    *)
(* did not time out and _run resolved; and with 1 otherwise: result        *)
(* failed, forbid-only or no-tests, a global timeout, a thrown error.      *)
(***************************************************************************)
C20_ExitCodeOfResult ==
  cli = "exited" =>
    /\ exitCode = 130 <=> (sigintAt \in {"dispatch", "stop"} /\ ~RunTimedOutBefore /\ rpc = "resolved")
    /\ exitCode = 0 <=> (returned = "passed" /\ ~RunTimedOutBefore /\ rpc = "resolved")
    /\ exitCode \in {0, 1, 130}
    /\ (result \in {"failed", "forbid-only", "no-tests"} \/ RunTimedOutBefore \/ result = "none") => exitCode = 1

C20_Witness ==
  /\ cli = "exited" /\ exitCode = 130 /\ result = "sigint"
  /\ sigintAt = "dispatch"
  /\ \E t \in Tests : ExpectedStatus(t) = "passed" /\ LastStatus(t) = "failed"

(***************************************************************************)
(* Output directories (relativeArtifactsPath and outputPath of             *)
(* workerRunner.ts).  A string is the sequence of its characters.          *)
(***************************************************************************)
RepeatEach == 2

DigitChars == <<"0", "1", "2", "3", "4", "5", "6", "7", "8", "9">>

\* \w of the regular expressions.
IsWord(c) ==
  LET Letters ==
        {"a", "b", "c", "d", "e", "f", "g", "h", "i", "j", "k", "l", "m", "n", "o", "p", "q", "r",
         "s", "t", "u", "v", "w", "x", "y", "z"}
  IN  c \in Letters \cup Range(DigitChars) \cup {"_"}

\* The decimal digits of a number, as string concatenation writes them.
RECURSIVE Str(_)
Str(n) == IF n < 10 THEN <<DigitChars[n + 1]>> ELSE Str(n \div 10) \o <<DigitChars[(n % 10) + 1]>>

\* What /\.(spec|test)\.(js|ts)/ matches.
SpecExts ==
  {<<".", "s", "p", "e", "c", ".", "j", "s">>, <<".", "s", "p", "e", "c", ".", "t", "s">>,
   <<".", "t", "e", "s", "t", ".", "j", "s">>, <<".", "t", "e", "s", "t", ".", "t", "s">>}

\* file.replace(/\.(spec|test)\.(js|ts)/, ''): the first match is removed.
StripSpecExt(s) ==
  LET m == {i \in 1..Len(s) : i + 7 <= Len(s) /\ SubSeq(s, i, i + 7) \in SpecExts}
  IN  IF m = {} THEN s
      ELSE LET i == CHOOSE i \in m : \A j \in m : i <= j
           IN  SubSeq(s, 1, i - 1) \o SubSeq(s, i + 8, Len(s))

\* title.replace(/[^\w\d]+/g, '-'): every run of other characters becomes one dash.
RECURSIVE Sanitize(_)
Sanitize(s) ==
  IF s = <<>> THEN <<>>
  ELSE IF IsWord(Head(s)) THEN <<Head(s)>> \o Sanitize(Tail(s))
  ELSE IF Len(s) > 1 /\ ~IsWord(s[2]) THEN Sanitize(Tail(s))
  ELSE <<"-">> \o Sanitize(Tail(s))

TestDir == <<"/", "t">>

OutputDir == <<"/", "o">>

\* path.relative(testDir, file), for a file below testDir.
Relative(dir, file) ==
  IF Len(file) > Len(dir) + 1 /\ SubSeq(file, 1, Len(dir) + 1) = dir \o <<"/">>
    THEN SubSeq(file, Len(dir) + 2, Len(file))
    ELSE file

\* path.join of segments that hold no "." or ".." part: the segments that are
\* not empty, with a separator between them.
RECURSIVE Join(_)
Join(segments) ==
  IF segments = <<>> THEN <<>>
  ELSE IF Head(segments) = <<>> THEN Join(Tail(segments))
  ELSE IF Join(Tail(segments)) = <<>> THEN Head(segments)
  ELSE Head(segments) \o <<"/">> \o Join(Tail(segments))

RelativeArtifactsPath(a) ==
  Join(<<Relative(TestDir, StripSpecExt(a.file)), Sanitize(a.title), a.segment>>)

RetrySuffix(retry) ==
  IF retry # 0 THEN <<"-", "r", "e", "t", "r", "y">> \o Str(retry) ELSE <<>>

RepeatEachSuffix(i) ==
  IF i # 0 THEN <<"-", "r", "e", "p", "e", "a", "t">> \o Str(i) ELSE <<>>

\* The base path of testInfo.outputPath.
OutputPath(a) ==
  Join(<<OutputDir, RelativeArtifactsPath(a)>>) \o RetrySuffix(a.retry)
    \o RepeatEachSuffix(a.repeatEachIndex)

\* The test files, spec titles and suite path segments of the attempts.
Attempts ==
  LET Files ==
        {TestDir \o <<"/", "a", ".", "s", "p", "e", "c", ".", "j", "s">>,
         TestDir \o <<"/", "a", ".", "t", "e", "s", "t", ".", "t", "s">>,
         TestDir \o <<"/", "a", "/", "b", ".", "s", "p", "e", "c", ".", "t", "s">>}
      Titles == {<<"b">>, <<"a", " ", "b">>, <<"a", "-", "b">>}
      Segments == {<<>>, <<"b">>}
  IN  {[file |-> f, title |-> t, segment |-> g, retry |-> r, repeatEachIndex |-> i] :
         f \in Files, t \in Titles, g \in Segments, r \in 0..Retries, i \in 0..(RepeatEach - 1)}

PathInit ==
  /\ WorkerReady
  /\ timeout = 0
  /\ DispatcherIdle
  /\ RunnerIdle
  /\ cfg = Config(0, FALSE, FALSE, FALSE)
  /\ NoShard
  /\ NoTree
  /\ NoEnvs
  /\ attempts \in {<<a1, a2>> : a1 \in Attempts, a2 \in Attempts}
  /\ outputDirs = <<"none", "none">>

\* _runSpec of the worker that runs attempt i resolves its output path.
ResolveOutputPath(i) ==
  /\ outputDirs[i] = "none"
  /\ outputDirs' = [outputDirs EXCEPT ![i] = OutputPath(attempts[i])]
  /\ UNCHANGED << wvars, dvars, rvars, svars, lvars, attempts >>

PathNext == \E i \in 1..2 : ResolveOutputPath(i)

PathSpec == PathInit /\ [][PathNext]_vars

(***************************************************************************)
(* C17: two attempts that differ in their test file, spec title, suite     *)
(* path segment, retry number or repeat-each index get different output    *)
(* directories.                                                            *)
(***************************************************************************)
C17_DistinctAttemptsDistinctDirs ==
  (outputDirs[1] # "none" /\ outputDirs[2] # "none" /\ attempts[1] # attempts[2]) =>
    outputDirs[1] # outputDirs[2]

(***************************************************************************)
(* Sharding: --shard k/N of the command line (configFromCommand of cli.ts) *)
(* and the slice of the ordered test list that the planner selects for     *)
(* config.shard (spec.md, section 4.1, step 7).                            *)
(***************************************************************************)
MaxTests == 12

MaxShards == 4

\* parseInt(t, 10): the value of the leading decimal digits, "NaN" without one.
RECURSIVE ParseDigits(_, _)
ParseDigits(s, acc) ==
  IF s = <<>> \/ Head(s) \notin Range(DigitChars) THEN acc
  ELSE LET DigitValue == (CHOOSE i \in DOMAIN DigitChars : DigitChars[i] = Head(s)) - 1
       IN  ParseDigits(Tail(s), 10 * acc + DigitValue)

ParseInt(s) ==
  IF s = <<>> \/ Head(s) \notin Range(DigitChars) THEN "NaN" ELSE ParseDigits(s, 0)

\* s.split('/')
RECURSIVE Split(_)
Split(s) ==
  IF \A i \in DOMAIN s : s[i] # "/" THEN <<s>>
  ELSE LET i == CHOOSE i \in DOMAIN s : s[i] = "/" /\ \A j \in 1..(i - 1) : s[j] # "/"
       IN  <<SubSeq(s, 1, i - 1)>> \o Split(SubSeq(s, i + 1, Len(s)))

\* Mutant of ShardFromCommand: the one-based number is kept.
ShardFromCommandOneBased(arg) ==
  LET pair == [i \in DOMAIN Split(arg) |-> ParseInt(Split(arg)[i])]
  IN  [current |-> pair[1], total |-> pair[2]]

\* configFromCommand: config.shard of --shard arg.
ShardFromCommand(arg) ==
  LET pair == [i \in DOMAIN Split(arg) |-> ParseInt(Split(arg)[i])]
  IN  [current |-> pair[1] - 1, total |-> pair[2]]

\* The zero-based indices of the tests of chunk i when a list of n tests is
\* cut into total contiguous chunks of as-equal-as-possible size.
ShardSlice(n, total, i) ==
  LET q    == n \div total
      r    == n % total
      from == i * q + (IF i < r THEN i ELSE r)
      size == q + (IF i < r THEN 1 ELSE 0)
  IN  [j \in 1..size |-> from + j - 1]

\* What the user types for shard k of total, and the number of tests of the run.
ShardInit ==
  /\ WorkerReady
  /\ timeout = 0
  /\ DispatcherIdle
  /\ RunnerIdle
  /\ cfg = Config(0, FALSE, FALSE, FALSE)
  /\ NoPaths
  /\ command \in {[arg |-> Str(k) \o <<"/">> \o Str(total), current |-> k, total |-> total, tests |-> n] :
                    k \in 1..MaxShards, total \in 1..MaxShards, n \in 0..MaxTests}
  /\ command.current <= command.total
  /\ shard = <<>>
  /\ selected = <<>>
  /\ NoTree
  /\ NoEnvs

ConfigFromCommand ==
  /\ shard = <<>>
  /\ shard' = <<ShardFromCommand(command.arg)>>
  /\ UNCHANGED << wvars, dvars, rvars, pvars, lvars, command, selected >>

\* The planner selects the shard.
SelectShard ==
  /\ shard # <<>> /\ selected = <<>>
  /\ selected' = <<ShardSlice(command.tests, shard[1].total, shard[1].current)>>
  /\ UNCHANGED << wvars, dvars, rvars, pvars, lvars, command, shard >>

ShardNext == ConfigFromCommand \/ SelectShard

ShardSpec == ShardInit /\ [][ShardNext]_vars

\* The chunks i, i + 1, ... of the list, one after the other.
RECURSIVE ShardsFrom(_, _, _)
ShardsFrom(n, total, i) ==
  IF i >= total THEN <<>> ELSE ShardSlice(n, total, i) \o ShardsFrom(n, total, i + 1)

GlobalHookCalls(hook) == {i \in DOMAIN globalHooks : globalHooks[i].hook = hook}

(***************************************************************************)
(* C21: once the global setup has completed, and unless run lost its race  *)
(* against the global deadline, the configured global teardown is invoked  *)
(* at most once; it has been invoked exactly once when _run has settled    *)
(* (whatever it returned or threw), and no reporter callback is called     *)
(* after the invocation.                                                   *)
(***************************************************************************)
C21_GlobalTeardownOnceAndLast ==
  (GlobalHookCalls("globalSetup") # {} /\ ~RunTimedOutBefore
     /\ GlobalHookCalls("noGlobalTeardown") = {}) =>
    /\ Cardinality(GlobalHookCalls("globalTeardown")) <= 1
    /\ rpc \in {"resolved", "rejected"} => Cardinality(GlobalHookCalls("globalTeardown")) = 1
    /\ \A i \in GlobalHookCalls("globalTeardown") : globalHooks[i].at = Len(reporter)

C21_Witness ==
  /\ GlobalHookCalls("globalSetup") # {}
  /\ Cardinality(GlobalHookCalls("globalTeardown")) = 1
  /\ rpc = "rejected" /\ cli = "exited"
  /\ didBegin /\ ~RunTimedOutBefore
  /\ reporter = <<"onBegin", "onTestEvent">>

(***************************************************************************)
(* The dispatcher when every worker that has a bucket goes on: it sends    *)
(* its next message or dies.  Nothing keeps a worker from dying before its *)
(* first testBegin, whenever it is given a bucket.                         *)
(***************************************************************************)
DispatcherWorkersEndSpec ==
  /\ DispatcherSpec
  /\ \A w \in Slots : WF_vars(Assign(w)) /\ WF_vars(WorkerBegins(w)) /\ WF_vars(WorkerStep(w))

(***************************************************************************)
(* C22: when every worker with a bucket eventually sends done or dies, the *)
(* dispatcher eventually has nothing pending and every slot idle, and      *)
(* whenever it is in that state every test has at least one TestResult.    *)
(***************************************************************************)
C22_EventuallyCompleted ==
  /\ <>Completed
  /\ [](Completed => \A t \in Tests : results[t] # <<>>)

(***************************************************************************)
(* The worker whose timers fire: a deadline that run() is raced against    *)
(* elapses when nothing settles the race before.  No user callable has to  *)
(* settle, and the per-test timeout is not zero.                           *)
(***************************************************************************)
\* One run message, with the bucket of the spec t1: every kind of user callable
\* is called for it.
OneRunNext ==
  \/ \E E \in {{"t1"}} : runsSent = 0 /\ RunMessage(E)
  \/ \E o \in {"ok", "throw"} : EnvBeforeAllSettles(o)
  \/ \E o \in {"ok", "throw"} : AllHookSettles(o)
  \/ \E o \in {"ok", "throw"} : EnvBeforeEachSettles(o)
  \/ \E o \in {"ok", "throw", "skip"} : BeforeSettles(o)
  \/ \E o \in {"ok", "throw", "skip"} : AfterSettles(o)
  \/ DeadlineFires
  \/ UnhandledError
  \/ StopMessage
  \/ Disconnect
  \/ Exit

WorkerTimerInit == Init /\ timeout # 0

WorkerTimerSpec == WorkerTimerInit /\ [][OneRunNext]_vars /\ WF_vars(DeadlineFires)

\* run() is in progress.
Running == pc.at # "idle"

(***************************************************************************)
(* C23: with a nonzero timeout, whenever run() is in progress the worker   *)
(* eventually sends done for that run message, whether or not the user     *)
(* callables it awaits ever settle.                                        *)
(***************************************************************************)
C23_RunEndsWithDone == Running ~> (Events("done") # {})

\* The same for the runs that no stop message and no disconnect cuts.
RunEndsWithDoneUnlessClosed == Running ~> (Events("done") # {} \/ closed)

(***************************************************************************)
(* The worker whose process exits: process.exit(0) is called when the      *)
(* teardown of gracefullyCloseAndExit completes, and by the timer that     *)
(* gracefullyCloseAndExit sets whether or not it completes.                *)
(***************************************************************************)
WorkerExitSpec == Init /\ [][OneRunNext]_vars /\ WF_vars(Exit)

(***************************************************************************)
(* C24: after a stop message or a disconnect the worker process eventually *)
(* exits, whether or not the teardown completes, and the teardown of the   *)
(* fixture scopes is started at most once, also when both arrive.          *)
(***************************************************************************)
C24_ExitsAndTearsDownOnce ==
  /\ closed ~> exited
  /\ [](Cardinality(Events("teardownScope")) <= 1)

\* The process has exited after a stop that cut the attempt of t1 short.
C24_Witness ==
  /\ exited
  /\ Cardinality(Events("teardownScope")) = 1
  /\ Begins("t1") # {} /\ Ends("t1") = {}

(***************************************************************************)
(* C25: a done message names a failed test only when the final status     *)
(* _runSpec reported for that test (its last testEnd) is neither passed    *)
(* nor its expected status: a test that fails as expected does not set     *)
(* failedTestId, and the worker goes on with its bucket.                   *)
(***************************************************************************)
C25_FailedTestIdOnlyWhenUnexpected ==
  \A i \in Events("done") :
    log[i].id # "none" =>
      \A j \in Ends(log[i].id) :
        (j < i /\ (\A j2 \in Ends(log[i].id) : j2 <= j) /\ log[j].error # "unhandled") =>
          log[j].status \notin {"passed", ExpectedStatus(log[i].id)}

\* The callables called for test t (one attempt per run message).
CallsFor(t) == {log[i].fn : i \in {c \in Events("call") : log[c].id = t}}

\* The attempts _runSpec ended with the error env.beforeEach threw.
EnvBeforeEachThrew == {j \in Events("testEnd") : log[j].error = "env.beforeEach"}

(***************************************************************************)
(* C26 as stated: when env.beforeEach throws for an attempt, the attempt   *)
(* is failed with that error, no beforeEach hook and no body is called,    *)
(* and the afterEach hooks and env.afterEach are still called.             *)
(***************************************************************************)
C26_AfterEachAfterEnvBeforeEachThrew ==
  \A j \in EnvBeforeEachThrew :
    /\ log[j].status = "failed"
    /\ CallsFor(log[j].id) \cap (Range(HooksUp(SpecParent(log[j].id), "beforeEach")) \cup {"body"}) = {}
    /\ Range(HooksUp(SpecParent(log[j].id), "afterEach")) \cup {"env.afterEach"} \subseteq CallsFor(log[j].id)

(***************************************************************************)
(* C26 amended: when env.beforeEach throws for an attempt, the attempt is  *)
(* failed with that error and no other callable is called for it: no       *)
(* beforeEach hook, no body, no afterEach hook and no env.afterEach.       *)
(***************************************************************************)
C26_NothingAfterEnvBeforeEachThrew ==
  \A j \in EnvBeforeEachThrew :
    /\ log[j].status = "failed"
    /\ CallsFor(log[j].id) = {"env.beforeEach"}

\* env.beforeEach threw for t2, which has hooks in both of its suites.
C26_Witness == \E j \in EnvBeforeEachThrew : log[j].id = "t2"

\* The beforeEach hooks _runHooks lists for the current attempt, outermost first.
CurBeforeEach == RunHooksList(SpecParent(CurAttempt), "beforeEach")

(***************************************************************************)
(* C27 as stated: after a beforeEach hook of an attempt has thrown, no     *)
(* later beforeEach hook of the ancestor chain is called for that attempt, *)
(* and neither is the body.                                                *)
(***************************************************************************)
C27_FirstErrorEndsBeforeEach ==
  CurAttempt # "none" =>
    \A n \in DOMAIN CurBeforeEach :
      CurBeforeEach[n] \in chainB.threw =>
        /\ Calls(CurAttempt, "body") = {}
        /\ \A m \in DOMAIN CurBeforeEach : m > n => Calls(CurAttempt, CurBeforeEach[m]) = {}

(***************************************************************************)
(* C27 amended: after a beforeEach hook of an attempt has thrown, the next *)
(* beforeEach hook of the ancestor chain is called all the same, every     *)
(* beforeEach hook has been called once when the hooks have all settled,   *)
(* and only the body is never called for that attempt.                     *)
(***************************************************************************)
C27_ErrorEndsOnlyTheBody ==
  CurAttempt # "none" =>
    \A n \in DOMAIN CurBeforeEach :
      CurBeforeEach[n] \in chainB.threw =>
        /\ Calls(CurAttempt, "body") = {}
        /\ n < Len(CurBeforeEach) => Calls(CurAttempt, CurBeforeEach[n + 1]) # {}
        /\ chainB.state = "done" =>
             \A m \in DOMAIN CurBeforeEach : Cardinality(Calls(CurAttempt, CurBeforeEach[m])) = 1

\* The outermost beforeEach hook of t2 threw, the inner one threw as well, and
\* the hooks have settled.
C27_Witness ==
  /\ CurAttempt = "t2"
  /\ chainB.threw = {"F.beforeEach", "S.beforeEach"}
  /\ chainB.state = "done"
  /\ Calls("t2", "S.beforeEach") # {}

\* The races of _runAfterHooks against the deadline of the test that the
\* deadline won while a user afterEach hook was being awaited, after the body
\* had settled, in a runner that was not stopped.
AfterEachTimeouts ==
  {j \in Events("timeout") :
     /\ log[j].fn = "after"
     /\ \E c \in Calls(log[j].id, "body") : c < j
     /\ \A d \in Events("done") \cup Events("teardownScope") : d > j
     /\ \E c \in Events("call") :
          /\ c < j /\ log[c].id = log[j].id
          /\ log[c].fn \in Range(HooksUp(SpecParent(log[j].id), "afterEach"))
          /\ \A c2 \in Events("call") : (c2 < j /\ log[c2].id = log[j].id) => c2 <= c}

AllHookTimeouts ==
  {j \in Events("timeout") :
     /\ log[j].fn = "hook"
     /\ \A d \in Events("done") \cup Events("teardownScope") : d > j}

(***************************************************************************)
(* C29: when a beforeAll or afterAll hook times out, the worker reports a  *)
(* fatal error in done and begins no further spec, and when run() has      *)
(* returned every afterAll hook of every suite whose beforeAll hooks had   *)
(* settled before has been called.                                         *)
(***************************************************************************)
C29_FatalHookErrorKeepsAfterAll ==
  \A j \in AllHookTimeouts :
    /\ \E d \in Events("done") : d > j /\ log[d].error # "none"
    /\ \A b \in Events("testBegin") : b < j
    /\ pc.at = "idle" =>
         \A s \in Suites :
           (\E c, c2 \in Events("call") : c < c2 /\ c2 < j /\ log[c].fn \in HookSet(s, "beforeAll")) =>
             \A fn \in HookSet(s, "afterAll") : Calls("none", fn) # {}

\* The callables called for test t before the log entry i, in the order of the calls.
CallOrder(t, i) ==
  LET calls == SelectSeq(SubSeq(log, 1, i - 1), LAMBDA ev : ev.e = "call" /\ ev.id = t)
  IN  [n \in DOMAIN calls |-> calls[n].fn]

\* The hooks of a type from the outermost suite to suite s, each suite's hooks
\* in the order of their declaration.
RECURSIVE OutermostFirst(_, _)
OutermostFirst(s, type) ==
  IF s = "none" THEN <<>> ELSE OutermostFirst(SuiteParent(s), type) \o HookFns(s, type)

(***************************************************************************)
(* C30: for an attempt that ran in full (no race was lost to a deadline    *)
(* and its testEnd says passed) the calls were, in this order:             *)
(* env.beforeEach, the beforeEach hooks from                               *)
(* the outermost suite to the innermost in declaration order, the body,    *)
(* the afterEach hooks innermost suite first and later-declared hook       *)
(* first, env.afterEach.                                                   *)
(***************************************************************************)
C30_CallOrderOfAnAttempt ==
  \A i \in SpecEnds :
    (log[i].status = "passed" /\ ~AnyTimeoutBefore(i, log[i].id)) =>
      CallOrder(log[i].id, i) =
        <<"env.beforeEach">> \o OutermostFirst(SpecParent(log[i].id), "beforeEach") \o <<"body">>
          \o Reverse(OutermostFirst(SpecParent(log[i].id), "afterEach")) \o <<"env.afterEach">>

\* The attempt of t2, in the inner suite with two afterEach hooks, ran in full.
C30_Witness ==
  \E i \in SpecEnds :
    /\ log[i].id = "t2" /\ log[i].status = "passed" /\ ~AnyTimeoutBefore(i, "t2")
    /\ CallOrder("t2", i) = <<"env.beforeEach", "F.beforeEach", "S.beforeEach", "body",
                              "S.afterEach2", "S.afterEach1", "F.afterEach", "env.afterEach">>

(***************************************************************************)
(* C31: the testEnd of an attempt reports its first failure: the error of  *)
(* an afterEach hook or of env.afterEach is reported only when nothing had *)
(* failed before it, so never for an attempt whose beforeEach hooks or     *)
(* body had lost their race to the deadline before the afterEach hooks     *)
(* were run, and an attempt reported timedOut carries no error.            *)
(***************************************************************************)
C31_FirstFailureReported ==
  \A i \in SpecEnds :
    /\ log[i].error \in AfterEachCallables(log[i].id) => ~TimedOutBefore(i, log[i].id, "test")
    /\ log[i].status = "timedOut" => log[i].error = "none"

\* The entries of the run message the log is of.
Assigned == log[1].rem

(***************************************************************************)
(* C32: in every done message, remaining is exactly the set of assigned    *)
(* entries for which no testBegin was sent before it in this run.          *)
(***************************************************************************)
C32_RemainingIsNotBegun ==
  \A d \in Events("done") :
    log[d].rem = {t \in Assigned : \A b \in Begins(t) : b > d}

\* A done that names a failed test and returns the entries not begun.
C32_Witness ==
  \E d \in Events("done") :
    /\ Assigned = {"t1", "t2", "t3"}
    /\ log[d].rem = {"t2"}
    /\ \E b \in Begins("t3") : b < d

(***************************************************************************)
(* C33: no testEnd reports an unhandled error for a test whose testEnd had *)
(* already been sent: an unhandled error that arrives when no test is in   *)
(* flight becomes the fatal error of a done and gives no testEnd.          *)
(***************************************************************************)
C33_UnhandledErrorOutsideTestIsFatal ==
  \A i \in Events("testEnd") :
    log[i].error = "unhandled" => \A j \in Ends(log[i].id) : j >= i

(***************************************************************************)
(* The worker whose callables write to stdout or stderr.  worker.ts        *)
(* replaces process.stdout.write and process.stderr.write: each chunk is   *)
(* sent to the parent at once, with the _testId of the runner, if any.     *)
(***************************************************************************)
MaxWrites == 2

\* The stdOut and stdErr messages sent, in the log.
Writes == Events("stdOut") \cup Events("stdErr")

\* process.stdout.write(chunk) or process.stderr.write(chunk): the payload has
\* testRunner ? testRunner._testId : undefined; status is the number of the
\* chunk in the order of the writes.
Write(stream) ==
  /\ ~exited
  /\ Cardinality(Writes) < MaxWrites
  /\ LET id == IF testRunner # "null" THEN testId ELSE "null"
     IN  Step1(Emit(Cur, Ev(stream, id, "none", Cardinality(Writes) + 1, "none", {})))

\* One run message with the bucket of the skipped t3 and of t2, whose suite
\* has beforeAll and afterAll hooks; no deadline and no exit of the process.
OutputNext ==
  \/ \E E \in {{"t2", "t3"}} : runsSent = 0 /\ RunMessage(E)
  \/ \E o \in {"ok", "throw"} : EnvBeforeAllSettles(o)
  \/ \E o \in {"ok", "throw"} : AllHookSettles(o)
  \/ \E o \in {"ok", "throw"} : EnvBeforeEachSettles(o)
  \/ \E o \in {"ok", "throw"} : BeforeSettles(o)
  \/ \E o \in {"ok", "throw"} : AfterSettles(o)
  \/ UnhandledError
  \/ StopMessage
  \/ \E stream \in {"stdOut", "stdErr"} : Write(stream)

WorkerOutputInit == Init /\ timeout = 0

WorkerOutputSpec == WorkerOutputInit /\ [][OutputNext]_vars

\* The tests in flight when log entry i was added: begun and not ended before it.
InFlightAt(i) == {t \in Tests : (\E b \in Begins(t) : b < i) /\ (\A e \in Ends(t) : e > i)}

(***************************************************************************)
(* C34: a stdOut or stdErr message carries testId t only if the write      *)
(* happened between testBegin(t) and testEnd(t), a write made when no test *)
(* is in flight is forwarded without a testId, and the messages are        *)
(* forwarded in the order of the writes.                                   *)
(***************************************************************************)
C34_OutputOfTheTestInFlight ==
  \A w \in Writes :
    /\ log[w].id # "null" => log[w].id \in InFlightAt(w)
    /\ InFlightAt(w) = {} => log[w].id = "null"
    /\ \A v \in Writes : v < w => log[v].status < log[w].status

\* The testEnd messages of the entries skipped by an annotation of an ancestor.
SkippedEnds == {i \in SpecEnds : ExpectedStatus(log[i].id) = "skipped"}

(***************************************************************************)
(* C35: for an assigned entry with an ancestor skip or fixme annotation    *)
(* the worker sends testBegin and at once testEnd with status skipped,     *)
(* calls no environment callback, hook or body for it, does not stop with  *)
(* it as the failed test but goes on with the next spec, and the beforeAll *)
(* and afterAll hooks of a suite are called only if an assigned test below *)
(* it is not skipped this way.                                             *)
(***************************************************************************)
C35_SkippedByAnnotation ==
  /\ \A i \in SkippedEnds :
       /\ log[i].status = "skipped"
       /\ log[i - 1].e = "testBegin" /\ log[i - 1].id = log[i].id
       /\ \A c \in Events("call") : log[c].id # log[i].id
       /\ Len(log) > i => ~(log[i + 1].e = "done" /\ log[i + 1].id = log[i].id)
  /\ \A t \in Tests :
       ExpectedStatus(t) = "skipped" => \A b \in Begins(t) : \E i \in SkippedEnds : i = b + 1
  /\ \A s \in Suites :
       \A c \in Events("call") :
         log[c].fn \in HookSet(s, "beforeAll") \cup HookSet(s, "afterAll") =>
           \E t \in SpecsUnder(s) : t \in Assigned /\ ExpectedStatus(t) # "skipped"

\* t3 was skipped, the hooks of its suite were not called, and the worker
\* went on with the suite S and its spec t2.
C35_Witness ==
  \E i \in SkippedEnds :
    /\ log[i].id = "t3"
    /\ Len(log) >= i + 2
    /\ log[i + 1].fn = "S.beforeAll"
    /\ Begins("t2") # {}

(***************************************************************************)
(* Only-filtering (filterOnly of the runner).  The tree is LoadedTree with *)
(* any set of its suites and specs marked only; filterOnly(rootSuite) is   *)
(* called on it, and then once more on the result.                         *)
(***************************************************************************)
\* Mutant of OnlyEntries: _entries is left as it was.
AllEntries(es, only) == es

\* suite._entries.filter(e => onlyEntries.has(e)): the order is preserved.
OnlyEntries(es, only) == SelectSeq(es, LAMBDA n : n \in only)

\* filterOnly(suite) on the tree tr: the value it returns and the tree it leaves.
\* FilterSuites is suite.suites.filter(child => filterOnly(child) || child._only),
\* which calls filterOnly on every child, in order.
RECURSIVE FilterOnly(_, _, _), FilterSuites(_, _, _)
FilterSuites(children, tr, marks) ==
  IF children = <<>> THEN [only |-> <<>>, tree |-> tr]
  ELSE LET r    == FilterOnly(Head(children), tr, marks)
           rest == FilterSuites(Tail(children), r.tree, marks)
       IN  [only |-> (IF r.ret \/ Head(children) \in marks THEN <<Head(children)>> ELSE <<>>)
                       \o rest.only,
            tree |-> rest.tree]

FilterOnly(suite, tr, marks) ==
  LET f         == FilterSuites(tr[suite].suites, tr, marks)
      onlyTests == SelectSeq(f.tree[suite].specs, LAMBDA n : n \in marks)
      only      == Range(f.only) \cup Range(onlyTests)
  IN  IF only # {}
        THEN [ret  |-> TRUE,
              tree |-> [f.tree EXCEPT ![suite] =
                          [suites  |-> f.only,
                           specs   |-> onlyTests,
                           entries |-> OnlyEntries(f.tree[suite].entries, only)]]]
        ELSE [ret |-> FALSE, tree |-> f.tree]

FilterInit ==
  /\ WorkerReady
  /\ timeout = 0
  /\ DispatcherIdle
  /\ RunnerIdle
  /\ cfg = Config(0, FALSE, FALSE, FALSE)
  /\ NoPaths
  /\ NoShard
  /\ rootSuite = LoadedTree
  /\ onlyMarks \in SUBSET (TreeSuites \cup TreeSpecs)
  /\ "root" \notin onlyMarks
  /\ filterCalls = 0
  /\ NoEnvs

\* How many times filterOnly(rootSuite) is called on one tree.
MaxFilterCalls == 2

\* filterOnly(rootSuite) is called.
CallFilterOnly ==
  /\ filterCalls < MaxFilterCalls
  /\ rootSuite' = FilterOnly("root", rootSuite, onlyMarks).tree
  /\ filterCalls' = filterCalls + 1
  /\ UNCHANGED << wvars, dvars, rvars, pvars, svars, onlyMarks, evars >>

FilterNext == CallFilterOnly

FilterSpec == FilterInit /\ [][FilterNext]_vars

\* The specs reachable from a suite of the tree tr.
RECURSIVE TreeSpecsUnder(_, _)
TreeSpecsUnder(s, tr) ==
  Range(tr[s].specs) \cup UNION {TreeSpecsUnder(c, tr) : c \in Range(tr[s].suites)}

\* The suites reachable from a suite of the tree tr, itself included.
RECURSIVE TreeSuitesUnder(_, _)
TreeSuitesUnder(s, tr) ==
  {s} \cup UNION {TreeSuitesUnder(c, tr) : c \in Range(tr[s].suites)}

\* q keeps the relative order its elements have in p.
InOrderOf(q, p) ==
  /\ Range(q) \subseteq Range(p)
  /\ \A i, j \in DOMAIN q :
       i < j => \E a, b \in DOMAIN p : a < b /\ p[a] = q[i] /\ p[b] = q[j]

\* C36: after filterOnly(rootSuite): a tree with no only marker is unchanged;
\* otherwise every only-marked spec is still in the tree, every spec still in
\* the tree is marked only or lies under a suite marked only, and in every
\* remaining suite the suites, specs and _entries keep their declaration
\* order, _entries holding exactly the remaining suites and specs; a second
\* filterOnly(rootSuite) leaves the tree of the first one.
C36_FilterOnly ==
  filterCalls >= 1 =>
    /\ onlyMarks = {} => rootSuite = LoadedTree
    /\ (onlyMarks \cap TreeSpecs) \subseteq TreeSpecsUnder("root", rootSuite)
    /\ onlyMarks # {} =>
         \A t \in TreeSpecsUnder("root", rootSuite) :
           \/ t \in onlyMarks
           \/ \E s \in onlyMarks \cap TreeSuites : t \in TreeSpecsUnder(s, LoadedTree)
    /\ \A s \in TreeSuitesUnder("root", rootSuite) :
         /\ InOrderOf(rootSuite[s].entries, TreeEntries(s))
         /\ InOrderOf(rootSuite[s].suites, rootSuite[s].entries)
         /\ InOrderOf(rootSuite[s].specs, rootSuite[s].entries)
         /\ Range(rootSuite[s].entries) = Range(rootSuite[s].suites) \cup Range(rootSuite[s].specs)
    /\ filterCalls >= 2 => rootSuite = FilterOnly("root", LoadedTree, onlyMarks).tree

C36_Witness ==
  /\ filterCalls = 2
  /\ onlyMarks = {"a2", "C"}
  /\ rootSuite["root"].entries = <<"A">>
  /\ rootSuite["A"].entries = <<"C", "a2">>
  /\ TreeSpecsUnder("root", rootSuite) = {"c1", "a2"}

\* C37: a run message yields at most one done, and once done is emitted or
\* stop() is called on the runner, no testBegin, testEnd or done of that run
\* follows, whatever is settled or thrown afterwards.
C37_OneDoneThenSilence ==
  /\ Cardinality(Events("done")) <= 1
  /\ \A i \in Events("done") \cup Events("teardownScope") :
       \A j \in DOMAIN log :
         j > i => log[j].e \notin {"testBegin", "testEnd", "done"}

C37_Witness ==
  /\ isStopped
  /\ \E i \in Events("done") :
       /\ log[i].id # "none"
       /\ \E j \in DOMAIN log : j > i /\ log[j].e = "call"
       /\ \E j \in DOMAIN log : j > i /\ log[j].e = "teardownScope"

C39_EnvBeforeAllOncePerWorker ==
  /\ [][(runsSent >= 1 /\ runsSent' = runsSent + 1) =>
          \A i \in DOMAIN log' : ~(log'[i].e = "call" /\ log'[i].fn = "env.beforeAll")]_vars
  /\ [](/\ Cardinality(Calls("none", "env.beforeAll")) <= 1
        /\ Cardinality(Calls("none", "env.afterAll")) <= 1
        /\ \A a \in Calls("none", "env.afterAll") :
             /\ \E b \in Calls("none", "env.beforeAll") : b < a
             /\ \A j \in Events("timeout") : j < a => log[j].fn # "envBeforeAll")

(***************************************************************************)
(* The merged environment (mergeEnvsImpl) of NEnvs environments that each  *)
(* have the four callbacks, as the worker calls it for one attempt:        *)
(* beforeAll from _loadIfNeeded, beforeEach and afterEach from _runSpec,   *)
(* afterAll from cleanup.  The hooks and the body of the test between      *)
(* beforeEach and afterEach and the races against the deadline are left to *)
(* the worker specification.                                               *)
(***************************************************************************)
NEnvs == 3

\* The properties a beforeEach may return.
ArgKeys == {"a", "b"}

\* What beforeEach of environment i may return: undefined, or an object that
\* holds i under some of the keys.
EnvReturns(i) == {<<>>} \cup {<<[k \in D |-> i]>> : D \in (SUBSET ArgKeys) \ {{}}}

EnvEv(i, fn, e, ret) == [env |-> i, fn |-> fn, e |-> e, ret |-> ret]

\* result === undefined ? r : { ...result, ...r }
MergeResult(res, r) ==
  IF res = <<>> THEN r
  ELSE IF r = <<>> THEN res
  ELSE <<[k \in DOMAIN res[1] \cup DOMAIN r[1] |->
            IF k \in DOMAIN r[1] THEN r[1][k] ELSE res[1][k]]>>

\* The callback awaited settles and the loop calls fn of environment i.
EnvCall(settled, fn, i, error) ==
  /\ envPc' = [at |-> fn, i |-> i, error |-> error]
  /\ envCalls' = envCalls \o settled \o <<EnvEv(i, fn, "call", <<>>)>>

\* The callback awaited settles and the merged callback settles with it.
EnvReturn(settled, at) ==
  /\ envPc' = [at |-> at, i |-> 0, error |-> envPc.error]
  /\ envCalls' = envCalls \o settled

Settled(outcome, ret) == <<EnvEv(envPc.i, envPc.at, outcome, ret)>>

\* The error an after-loop keeps: the first one.
FirstEnvError(outcome) == IF outcome = "throw" /\ envPc.error = 0 THEN envPc.i ELSE envPc.error

EnvInit ==
  /\ WorkerReady
  /\ timeout = 0
  /\ DispatcherIdle
  /\ RunnerIdle
  /\ cfg = Config(0, FALSE, FALSE, FALSE)
  /\ NoPaths
  /\ NoShard
  /\ NoTree
  /\ NoEnvs

\* _loadIfNeeded calls the merged beforeAll, which calls the first one.
EnvLoad ==
  /\ envPc.at = "idle"
  /\ EnvCall(<<>>, "beforeAll", 1, 0)
  /\ UNCHANGED << wvars, dvars, rvars, pvars, svars, tvars, envArgs >>

\* A beforeAll settles: the loop goes on forward; after the last one _runSpec
\* calls the merged beforeEach.  An error rejects the merged beforeAll and run().
MergedBeforeAllSettles(outcome) ==
  /\ envPc.at = "beforeAll"
  /\ IF outcome = "throw" THEN EnvReturn(Settled(outcome, <<>>), "end")
     ELSE IF envPc.i < NEnvs THEN EnvCall(Settled(outcome, <<>>), "beforeAll", envPc.i + 1, 0)
     ELSE EnvCall(Settled(outcome, <<>>), "beforeEach", 1, 0)
  /\ UNCHANGED << wvars, dvars, rvars, pvars, svars, tvars, envArgs >>

\* A beforeEach settles: its result is merged and the loop goes on forward;
\* after the last one _runSpec goes on to _runAfterHooks, which calls the merged
\* afterEach.  An error rejects the merged beforeEach: _runEnvBeforeEach returns
\* undefined and _runSpec runs neither the test nor any teardown.
MergedBeforeEachSettles(outcome, r) ==
  /\ envPc.at = "beforeEach"
  /\ IF outcome = "throw"
       THEN EnvReturn(Settled(outcome, <<>>), "attemptEnd") /\ UNCHANGED envArgs
       ELSE /\ envArgs' = MergeResult(envArgs, r)
            /\ IF envPc.i < NEnvs THEN EnvCall(Settled(outcome, r), "beforeEach", envPc.i + 1, 0)
               ELSE EnvCall(Settled(outcome, r), "afterEach", NEnvs, 0)
  /\ UNCHANGED << wvars, dvars, rvars, pvars, svars, tvars >>

\* An afterEach settles: an error is caught, the first one kept, and the loop
\* goes on backward.
MergedAfterEachSettles(outcome) ==
  /\ envPc.at = "afterEach"
  /\ IF envPc.i > 1 THEN EnvCall(Settled(outcome, <<>>), "afterEach", envPc.i - 1, FirstEnvError(outcome))
     ELSE /\ envPc' = [at |-> "attemptEnd", i |-> 0, error |-> FirstEnvError(outcome)]
          /\ envCalls' = envCalls \o Settled(outcome, <<>>)
  /\ UNCHANGED << wvars, dvars, rvars, pvars, svars, tvars, envArgs >>

\* cleanup() calls the merged afterAll, which calls the last one.
EnvCleanup ==
  /\ envPc.at = "attemptEnd"
  /\ EnvCall(<<>>, "afterAll", NEnvs, 0)
  /\ UNCHANGED << wvars, dvars, rvars, pvars, svars, tvars, envArgs >>

\* An afterAll settles: an error is caught, the first one kept, and the loop
\* goes on backward.
MergedAfterAllSettles(outcome) ==
  /\ envPc.at = "afterAll"
  /\ IF envPc.i > 1 THEN EnvCall(Settled(outcome, <<>>), "afterAll", envPc.i - 1, FirstEnvError(outcome))
     ELSE /\ envPc' = [at |-> "end", i |-> 0, error |-> FirstEnvError(outcome)]
          /\ envCalls' = envCalls \o Settled(outcome, <<>>)
  /\ UNCHANGED << wvars, dvars, rvars, pvars, svars, tvars, envArgs >>

EnvNext ==
  \/ EnvLoad
  \/ \E outcome \in {"ok", "throw"} : MergedBeforeAllSettles(outcome)
  \/ \E outcome \in {"ok", "throw"} : \E r \in EnvReturns(envPc.i) : MergedBeforeEachSettles(outcome, r)
  \/ \E outcome \in {"ok", "throw"} : MergedAfterEachSettles(outcome)
  \/ EnvCleanup
  \/ \E outcome \in {"ok", "throw"} : MergedAfterAllSettles(outcome)

EnvSpec == EnvInit /\ [][EnvNext]_vars

\* The places of the history where fn was called (e = "call") or settled.
EnvEvents(fn, e) == {n \in DOMAIN envCalls : envCalls[n].fn = fn /\ envCalls[n].e = e}

\* The before callbacks are called in composition order, the after callbacks
\* in reverse order.
EnvOrder ==
  \A m, n \in DOMAIN envCalls :
    (m < n /\ envCalls[m].e = "call" /\ envCalls[n].e = "call" /\ envCalls[m].fn = envCalls[n].fn) =>
      IF envCalls[m].fn \in {"beforeAll", "beforeEach"}
        THEN envCalls[m].env < envCalls[n].env
        ELSE envCalls[m].env > envCalls[n].env

\* Once every beforeEach has returned, the arguments hold under each key what
\* the last environment that returned the key gave.
EnvShallowMerge ==
  EnvEvents("afterEach", "call") # {} =>
    \A k \in ArgKeys :
      LET R == {n \in EnvEvents("beforeEach", "ok") :
                  envCalls[n].ret # <<>> /\ k \in DOMAIN envCalls[n].ret[1]}
      IN  IF R = {} THEN envArgs = <<>> \/ k \notin DOMAIN envArgs[1]
          ELSE /\ envArgs # <<>>
               /\ k \in DOMAIN envArgs[1]
               /\ envArgs[1][k] = envCalls[CHOOSE n \in R : \A m \in R : m <= n].ret[1][k]

\* When the attempt is over, every environment whose beforeEach returned has
\* had its afterEach called.
EnvAfterEachForEveryBeforeEach ==
  envPc.at \in {"attemptEnd", "afterAll", "end"} =>
    \A n \in EnvEvents("beforeEach", "ok") :
      \E m \in EnvEvents("afterEach", "call") : envCalls[m].env = envCalls[n].env

(***************************************************************************)
(* C40: in a composition of environments beforeAll and beforeEach are      *)
(* called in composition order, afterEach and afterAll in reverse order,   *)
(* the results of beforeEach are merged with later ones over earlier ones, *)
(* and when an attempt is over every environment whose beforeEach returned *)
(* has had its afterEach called, also when a later beforeEach or an        *)
(* afterEach called before it threw.                                       *)
(***************************************************************************)
C40_MergedEnvironment ==
  /\ EnvOrder
  /\ EnvShallowMerge
  /\ EnvAfterEachForEveryBeforeEach

====
